---- MODULE Spec2Model ----
(***************************************************************************)
(* Model of the data-entity core of nionswift (src/model/DataItem.py):     *)
(* lazy derived data with a memoized cache, the residency reference count, *)
(* and the change accumulator that batches notifications.                  *)
(*                                                                         *)
(* An array is modelled as the raw value it starts from together with the  *)
(* sequence of operations that were applied to it, so that two arrays are  *)
(* equal exactly when they were computed the same way.                     *)
(***************************************************************************)
EXTENDS Integers, Sequences, FiniteSets, TLC

\* ---------------------------------------------------------------- bounds
MaxRefCount == 2     \* data_ref_count stays within -1..MaxRefCount
MaxChangeCount == 2  \* deepest nesting of begin_data_item_changes
MaxMutations == 4    \* mutating operations (data, source, chain, calibration) in one run
MaxDimension == 2    \* largest index given to set_spatial_calibration
MaxTrees == 2        \* expressions parsed by one Computation
MaxBoundItems == 4   \* Bound Items created by the resolution context
MaxIndex == 3        \* largest index a GraphicSelection is given or holds

\* ------------------------------------------------------------- constants
DATA == 1
METADATA == 2
DISPLAYS == 3
SOURCE == 4
ChangeKinds == {DATA, METADATA, DISPLAYS, SOURCE}

Items == {"A", "B", "C"}
NoItem == "none"
OpIds == {"f", "g"}

\* "None" for an array, and the arrays themselves.
None == [raw |-> 0, applied |-> <<>>]
RawValues == {1, 2}
Raw(r) == [raw |-> r, applied |-> <<>>]
RawData == {Raw(r) : r \in RawValues}

\* The cached "data_range" value computed from an array (its min/max).
NoRange == [range_of |-> None]
RangeOf(data) == [range_of |-> data]

VARIABLES
    master_data,            \* __master_data: the raw array in memory, or None
    has_master_data,        \* __has_master_data
    data_source,            \* __data_source: an item or NoItem
    operations,             \* the "operations" relationship: sequence of [id, enabled]
    cached_data,            \* __cached_data
    cached_data_dirty,      \* __cached_data_dirty
    data_range,             \* cached value "data_range" (NoRange when removed)
    data_range_dirty,       \* dirty mark of the cached value "data_range"
    data_ref_count,         \* __data_ref_count
    data_item_change_count, \* __data_item_change_count
    data_item_changes,      \* __data_item_changes
    listeners,              \* items registered with add_listener on each item
    datastore,              \* whether the item has a datastore
    transaction_count,      \* transaction_count of the item
    stored,                 \* what the datastore would load for "master_data"
    master_data_shape,      \* __master_data_shape with __master_data_dtype
    intrinsic_spatial_calibrations, \* intrinsic_spatial_calibrations.list
    recorded,               \* history: change kinds recorded since the last delivery
    events,                 \* history: what the last operation did, in order
    last,                   \* history: the last operation and its result
    mutations,              \* history: how many mutating operations ran
    run,                    \* history: the current streak of acquires then releases
    threads,                \* each thread's position inside an acquire or a release
    inflight,               \* each thread's position inside __get_data, with its array
    roundtrip,              \* a node tree and what write, read, write made of it
    computation,            \* the Computation object's fields
    bound_items_made,       \* the Bound Items the resolution context has created
    host,                   \* what exec of expression texts did to the host
    called,                 \* history: the last call on the Computation
    graphic_selection,      \* the fields of one GraphicSelection
    display_item            \* the fields of one DisplayItem, with its calls

vars == <<master_data, has_master_data, data_source, operations, cached_data,
          cached_data_dirty, data_range, data_range_dirty, data_ref_count,
          data_item_change_count, data_item_changes, listeners, datastore,
          transaction_count, stored, master_data_shape,
          intrinsic_spatial_calibrations, recorded, events, last, mutations, run,
          threads, inflight, roundtrip, computation, bound_items_made, host,
          called, graphic_selection, display_item>>

\* the variables of src/model/Symbolic.py and those of src/model/DataItem.py
symbolic_vars == <<roundtrip, computation, bound_items_made, host, called>>
\* the variables of src/nion/swift/model/DisplayItem.py
display_vars == <<graphic_selection, display_item>>
data_item_vars == <<master_data, has_master_data, data_source, operations,
                    cached_data, cached_data_dirty, data_range, data_range_dirty,
                    data_ref_count, data_item_change_count, data_item_changes,
                    listeners, datastore, transaction_count, stored,
                    master_data_shape, intrinsic_spatial_calibrations, recorded,
                    events, last, mutations, run, threads, inflight>>

\* The program state as one record, so that nested calls compose as functions.
Pack ==
    [master_data |-> master_data, has_master_data |-> has_master_data,
     data_source |-> data_source, operations |-> operations,
     cached_data |-> cached_data, cached_data_dirty |-> cached_data_dirty,
     data_range |-> data_range, data_range_dirty |-> data_range_dirty,
     data_ref_count |-> data_ref_count,
     data_item_change_count |-> data_item_change_count,
     data_item_changes |-> data_item_changes, listeners |-> listeners,
     datastore |-> datastore, transaction_count |-> transaction_count,
     stored |-> stored, master_data_shape |-> master_data_shape,
     intrinsic_spatial_calibrations |-> intrinsic_spatial_calibrations,
     recorded |-> recorded, events |-> <<>>,
     \* how often the running thread holds __data_item_change_mutex of an
     \* item, and the kinds of change an observer of the item records on it
     \* from inside its next data_item_content_changed callback
     change_mutex |-> [e \in Items |-> 0],
     observer |-> [e \in Items |-> {}],
     \* self.closed, which about_to_delete sets on the item it tears down
     closed |-> [e \in Items |-> FALSE]]

Emit(s, e) == [s EXCEPT !.events = Append(@, e)]

\* ------------------------------------------------- cached values (Storage)
\* set_cached_value("data_range", v) / remove_cached_value("data_range")
SetCachedRange(s, e, v) ==
    [s EXCEPT !.data_range[e] = v, !.data_range_dirty[e] = FALSE]
RemoveCachedRange(s, e) ==
    [s EXCEPT !.data_range[e] = NoRange, !.data_range_dirty[e] = TRUE]

\* DataItem.__get_data_range_for_data
GetDataRangeForData(s, e, data) ==
    IF data # None THEN SetCachedRange(s, e, RangeOf(data))
    ELSE RemoveCachedRange(s, e)

\* faulty variant: __clear_cached_data that marks nothing
ClearCachedDataMarksNothing(s, e) == s

\* DataItem.__clear_cached_data
ClearCachedData(s, e) ==
    [s EXCEPT !.cached_data_dirty[e] = TRUE, !.data_range_dirty[e] = TRUE]

\* ------------------------------------------------------- shape and dtype
\* A shape with its dtype is kept as the number of dimensions of the root
\* array and the operations whose transfer function was applied to it, in
\* order; NoShape is (None, None). Array r of the model has r dimensions.
NoShape == [dims |-> 0, applied |-> <<>>]
ShapeAndDtypeOf(data) ==
    IF data = None THEN NoShape ELSE [dims |-> data.raw, applied |-> <<>>]

\* Operation.get_processed_data_shape_and_dtype: "g" is a projection, which
\* drops one axis of data that has more than one; "f" keeps the axes.
GetProcessedDataShapeAndDtype(op, shape) ==
    [dims |-> IF op.id = "g" /\ shape.dims > 1 THEN shape.dims - 1 ELSE shape.dims,
     applied |-> Append(shape.applied, op.id)]

\* the loop of __get_data_shape_and_dtype: "for operation in self.operations",
\* from operation i on
RECURSIVE ThreadShape(_, _, _)
ThreadShape(ops, i, shape) ==
    IF i > Len(ops) THEN shape
    ELSE ThreadShape(ops, i + 1,
                     IF ops[i].enabled
                     THEN GetProcessedDataShapeAndDtype(ops[i], shape)
                     ELSE shape)

\* DataItem.__get_data_shape_and_dtype (the "data_shape_and_dtype" property)
RECURSIVE DataShapeAndDtype(_, _)
DataShapeAndDtype(s, e) ==
    LET data_shape == IF s.has_master_data[e] THEN s.master_data_shape[e]
                      ELSE IF s.data_source[e] # NoItem
                           THEN DataShapeAndDtype(s, s.data_source[e])
                           ELSE NoShape
    IN  IF data_shape # NoShape
        THEN ThreadShape(s.operations[e], 1, data_shape)
        ELSE data_shape

\* len(self.spatial_shape), 0 when the spatial shape is None
SpatialDimensions(s, e) == DataShapeAndDtype(s, e).dims

\* ------------------------------------------------------ change accumulator
\* "with self.__data_item_change_mutex:", a threading.RLock: enter and leave
AcquireChangeMutex(s, e) == [s EXCEPT !.change_mutex[e] = @ + 1]
ReleaseChangeMutex(s, e) == [s EXCEPT !.change_mutex[e] = @ - 1]

\* DataItem.begin_data_item_changes
BeginDataItemChanges(s, e) ==
    [s EXCEPT !.data_item_change_count[e] = @ + 1]

\* What observers see when "data_item_content_changed" is delivered to them.
NotifyEvent(s, e, changes) ==
    [type |-> "notify", item |-> e, changes |-> changes,
     recorded |-> s.recorded[e],
     depth |-> s.data_item_change_count[e],
     locked |-> s.change_mutex[e] > 0,
     dirty |-> s.cached_data_dirty[e],
     range_dirty |-> s.data_range_dirty[e]]

RECURSIVE NotifyListeners(_, _, _, _)
RECURSIVE NotifyDataItemContentChanged(_, _, _)
RECURSIVE SyncIntrinsicSpatialCalibrations(_, _)

\* faulty variant: data_item_content_changed that does not pass the change on
DataItemContentChangedStops(s, d, source, changes) ==
    LET s1 == SyncIntrinsicSpatialCalibrations(s, d)
    IN  IF source # s1.data_source[d]
        THEN Emit(s1, [type |-> "assert", item |-> d,
                       at |-> "data_item_content_changed"])
        ELSE s1

\* DataItem.data_item_content_changed: the message a derived item d receives
\* from its data source.
DataItemContentChanged(s, d, source, changes) ==
    LET s1 == SyncIntrinsicSpatialCalibrations(s, d)
    IN  IF source # s1.data_source[d]
        THEN Emit(s1, [type |-> "assert", item |-> d,
                       at |-> "data_item_content_changed"])
        ELSE IF DATA \in changes
             THEN NotifyDataItemContentChanged(s1, d, changes)
             ELSE s1

\* notify_listeners("data_item_content_changed", self, changes): the observers
\* first see the notification, then every listening data item handles it.
NotifyListeners(s, e, changes, todo) ==
    IF todo = {} THEN s
    ELSE LET d == CHOOSE x \in todo : TRUE
         IN NotifyListeners(DataItemContentChanged(s, d, e, changes),
                            e, changes, todo \ {d})

\* The part of end_data_item_changes that runs outside the mutex once the
\* count is back at 0: invalidate, then notify the listeners.
Deliver(s, e, changes) ==
    LET s1 == IF DATA \in changes \/ SOURCE \in changes
              THEN ClearCachedData(s, e) ELSE s
        s2 == Emit(s1, NotifyEvent(s1, e, changes))
        s3 == [s2 EXCEPT !.recorded[e] = {}]
        \* an observer that records a change of its own from its callback
        s4 == IF s3.observer[e] # {}
              THEN NotifyDataItemContentChanged(
                       [s3 EXCEPT !.observer[e] = {}], e, s3.observer[e])
              ELSE s3
    IN  NotifyListeners(s4, e, changes, s4.listeners[e])

\* faulty variant: end_data_item_changes that does not swap the accumulated set out
EndDataItemChangesKeepsSet(s, e) ==
    LET s1 == [s EXCEPT !.data_item_change_count[e] = @ - 1]
        count == s1.data_item_change_count[e]
        s2 == Emit(s1, [type |-> "end", item |-> e, depth |-> count])
    IN  IF count # 0 THEN s2 ELSE Deliver(s2, e, s1.data_item_changes[e])

\* faulty variant: end_data_item_changes that notifies inside the mutex,
\* before it swaps the accumulated set out
EndDataItemChangesUnderMutex(s, e) ==
    LET s0 == AcquireChangeMutex(s, e)
        s1 == [s0 EXCEPT !.data_item_change_count[e] = @ - 1]
        count == s1.data_item_change_count[e]
        changes == s1.data_item_changes[e]
        s2 == Emit(s1, [type |-> "end", item |-> e, depth |-> count])
    IN  IF count # 0 THEN ReleaseChangeMutex(s2, e)
        ELSE ReleaseChangeMutex(
                 [Deliver(s2, e, changes) EXCEPT !.data_item_changes[e] = {}], e)

\* faulty variant: the mutex section of end_data_item_changes without the
\* swap of the accumulated set
EndSectionKeepsSet(s, e) == [s EXCEPT !.data_item_change_count[e] = @ - 1]

\* The section of end_data_item_changes inside "with
\* self.__data_item_change_mutex": the count goes down, and at 0 the
\* accumulated set is replaced by a new empty one.
EndSection(s, e) ==
    LET s1 == [s EXCEPT !.data_item_change_count[e] = @ - 1]
    IN  IF s1.data_item_change_count[e] = 0
        THEN [s1 EXCEPT !.data_item_changes[e] = {}]
        ELSE s1

\* DataItem.end_data_item_changes
EndDataItemChanges(s, e) ==
    LET s0 == AcquireChangeMutex(s, e)
        s1 == [s0 EXCEPT !.data_item_change_count[e] = @ - 1]
        count == s1.data_item_change_count[e]
        changes == s1.data_item_changes[e]
        s2 == Emit(s1, [type |-> "end", item |-> e, depth |-> count])
    IN  IF count # 0 THEN ReleaseChangeMutex(s2, e)
        ELSE Deliver(ReleaseChangeMutex(
                         [s2 EXCEPT !.data_item_changes[e] = {}], e), e, changes)

\* DataItem.notify_data_item_content_changed
NotifyDataItemContentChanged(s, e, changes) ==
    LET s1 == BeginDataItemChanges(s, e)
        s2 == [s1 EXCEPT !.data_item_changes[e] = @ \cup changes,
                         !.recorded[e] = @ \cup changes]
    IN  EndDataItemChanges(s2, e)

\* DataItem.__intrinsic_spatial_calibrations_changed, which runs when the
\* property intrinsic_spatial_calibrations is assigned
IntrinsicSpatialCalibrationsChanged(s, e) ==
    NotifyDataItemContentChanged(s, e, {METADATA})

\* Calibration.Calibration(), and the other calibrations given to
\* set_spatial_calibration; a Calibration is a value: offset, scale, units
IdentityCalibration == "identity"
Calibrations == {"c", "d"}

\* "while len(list) < n: list.append(Calibration.Calibration())"
RECURSIVE AppendCalibrations(_, _)
AppendCalibrations(list, n) ==
    IF Len(list) < n THEN AppendCalibrations(Append(list, IdentityCalibration), n)
    ELSE list

\* list.remove(x): the first entry equal to x goes
RECURSIVE ListRemove(_, _)
ListRemove(list, x) ==
    IF list = <<>> THEN list
    ELSE IF Head(list) = x THEN Tail(list)
    ELSE <<Head(list)>> \o ListRemove(Tail(list), x)

\* "while len(list) > ndim: list.remove(list[-1])"
RECURSIVE RemoveCalibrations(_, _)
RemoveCalibrations(list, ndim) ==
    IF Len(list) > ndim
    THEN RemoveCalibrations(ListRemove(list, list[Len(list)]), ndim)
    ELSE list

\* DataItem.sync_intrinsic_spatial_calibrations
SyncIntrinsicSpatialCalibrations(s, e) ==
    LET ndim == SpatialDimensions(s, e)
    IN  IF Len(s.intrinsic_spatial_calibrations[e]) # ndim /\ ~s.closed[e]
        THEN IntrinsicSpatialCalibrationsChanged(
                 [s EXCEPT !.intrinsic_spatial_calibrations[e] =
                      RemoveCalibrations(AppendCalibrations(@, ndim), ndim)], e)
        ELSE s

\* DataItem.set_spatial_calibration: the list grows until it has the index
SetSpatialCalibration(s, e, dimension, calibration) ==
    IntrinsicSpatialCalibrationsChanged(
        [s EXCEPT !.intrinsic_spatial_calibrations[e] =
             [AppendCalibrations(@, dimension + 1) EXCEPT ![dimension + 1] =
                                                            calibration]], e)

\* DataItem.notify_set_property (the Storage part writes the property out)
NotifySetProperty(s, e) == NotifyDataItemContentChanged(s, e, {METADATA})

\* ------------------------------------------------------------- residency
\* DataItem.__load_master_data
LoadMasterData(s, e) ==
    IF s.has_master_data[e] /\ s.datastore[e] /\ s.master_data[e] = None
    THEN Emit([s EXCEPT !.master_data[e] = s.stored[e]],
              [type |-> "load", item |-> e])
    ELSE s

\* faulty variant: __unload_master_data that does not ask for a datastore
UnloadMasterDataWithoutDatastore(s, e) ==
    LET drop == s.transaction_count[e] = 0 /\ s.has_master_data[e]
        s1 == Emit(s, [type |-> "unload", item |-> e, dropped |-> drop,
                       ref_count |-> s.data_ref_count[e],
                       resident |-> s.master_data[e] # None])
    IN  IF drop
        THEN [s1 EXCEPT !.master_data[e] = None, !.cached_data[e] = None]
        ELSE s1

\* faulty variant: __unload_master_data that keeps __cached_data
UnloadMasterDataKeepsCache(s, e) ==
    LET drop == s.transaction_count[e] = 0 /\ s.has_master_data[e] /\ s.datastore[e]
        s1 == Emit(s, [type |-> "unload", item |-> e, dropped |-> drop,
                       ref_count |-> s.data_ref_count[e],
                       resident |-> s.master_data[e] # None])
    IN  IF drop THEN [s1 EXCEPT !.master_data[e] = None] ELSE s1

\* DataItem.__unload_master_data
UnloadMasterData(s, e) ==
    LET drop == s.transaction_count[e] = 0 /\ s.has_master_data[e] /\ s.datastore[e]
        s1 == Emit(s, [type |-> "unload", item |-> e, dropped |-> drop,
                       ref_count |-> s.data_ref_count[e],
                       resident |-> s.master_data[e] # None])
    IN  IF drop
        THEN [s1 EXCEPT !.master_data[e] = None, !.cached_data[e] = None]
        ELSE s1

RECURSIVE IncrementDataRefCount(_, _)
\* faulty variant: increment_data_ref_count that acquires the source on every call
IncrementDataRefCountEveryCall(s, e) ==
    LET initial_count == s.data_ref_count[e]
        s1 == [s EXCEPT !.data_ref_count[e] = @ + 1]
    IN  IF s1.data_source[e] # NoItem
        THEN IncrementDataRefCount(s1, s1.data_source[e])
        ELSE IF initial_count = 0 THEN LoadMasterData(s1, e) ELSE s1

\* DataItem.increment_data_ref_count
IncrementDataRefCount(s, e) ==
    LET initial_count == s.data_ref_count[e]
        s1 == [s EXCEPT !.data_ref_count[e] = @ + 1]
    IN  IF initial_count = 0
        THEN IF s1.data_source[e] # NoItem
             THEN IncrementDataRefCount(s1, s1.data_source[e])
             ELSE LoadMasterData(s1, e)
        ELSE s1

RECURSIVE DecrementDataRefCount(_, _)
\* faulty variant: decrement_data_ref_count that forgets to release the source
DecrementDataRefCountKeepsSource(s, e) ==
    LET s1 == [s EXCEPT !.data_ref_count[e] = @ - 1]
        final_count == s1.data_ref_count[e]
    IN  IF final_count = 0 /\ s1.data_source[e] = NoItem
        THEN UnloadMasterData(s1, e)
        ELSE s1

\* faulty variant: decrement_data_ref_count that releases the source on every call
DecrementDataRefCountEveryCall(s, e) ==
    LET s1 == [s EXCEPT !.data_ref_count[e] = @ - 1]
    IN  IF s1.data_source[e] # NoItem
        THEN DecrementDataRefCount(s1, s1.data_source[e])
        ELSE IF s1.data_ref_count[e] = 0 THEN UnloadMasterData(s1, e) ELSE s1

\* DataItem.decrement_data_ref_count
DecrementDataRefCount(s, e) ==
    LET s1 == [s EXCEPT !.data_ref_count[e] = @ - 1]
        final_count == s1.data_ref_count[e]
    IN  IF final_count = 0
        THEN IF s1.data_source[e] # NoItem
             THEN DecrementDataRefCount(s1, s1.data_source[e])
             ELSE UnloadMasterData(s1, e)
        ELSE s1

\* The body of increment_data_ref_count on e up to, and without, the call into
\* the data source: what one thread does once it holds e's ref-count mutex.
IncrementSection(s, e) ==
    LET initial_count == s.data_ref_count[e]
        s1 == [s EXCEPT !.data_ref_count[e] = @ + 1]
    IN  IF initial_count = 0 /\ s1.data_source[e] = NoItem
        THEN LoadMasterData(s1, e)
        ELSE s1

\* faulty variant: a release that unloads while another holder remains
DecrementSectionUnloadsEarly(s, e) ==
    LET s1 == [s EXCEPT !.data_ref_count[e] = @ - 1]
        final_count == s1.data_ref_count[e]
    IN  IF final_count <= 1 /\ s1.data_source[e] = NoItem
        THEN UnloadMasterData(s1, e)
        ELSE s1

\* The body of decrement_data_ref_count on e without the call into the source.
DecrementSection(s, e) ==
    LET s1 == [s EXCEPT !.data_ref_count[e] = @ - 1]
        final_count == s1.data_ref_count[e]
    IN  IF final_count = 0 /\ s1.data_source[e] = NoItem
        THEN UnloadMasterData(s1, e)
        ELSE s1

\* Whether the body goes on to call the same method of e's data source, which
\* it does while still inside "with self.__data_ref_count_mutex".
CallsSource(s, op, e) ==
    /\ s.data_source[e] # NoItem
    /\ IF op = "inc" THEN s.data_ref_count[e] = 0 ELSE s.data_ref_count[e] = 1

\* ---------------------------------------------------------- derived data
\* Operation.process_data: the operation's transformation of an array.
ProcessData(op, data) == [data EXCEPT !.applied = Append(@, op.id)]

\* The loop of __get_data over the chain: "for operation in reversed(operations)".
RECURSIVE ApplyOperations(_, _, _, _)
ApplyOperations(s, e, ops, data) ==
    IF ops = <<>> THEN [s |-> s, v |-> data]
    ELSE LET op == ops[Len(ops)]
             out == ProcessData(op, data)
         IN  ApplyOperations(
                 Emit(s, [type |-> "process", item |-> e, op |-> op.id,
                          enabled |-> op.enabled, input |-> data, output |-> out]),
                 e, SubSeq(ops, 1, Len(ops) - 1), out)

RECURSIVE GetData(_, _)
\* The three sections of __get_data as separate threads see them. First, under
\* __data_mutex: "if self.__cached_data_dirty or self.__cached_data is None".
MustCompute(s, e) == s.cached_data_dirty[e] \/ s.cached_data[e] = None

RECURSIVE DeriveData(_, _)
\* "data = self.__master_data" when has_master_data, else, with a data source,
\* "with self.data_source.data_ref() as data_ref: data = data_ref.data"
RootData(s, e) ==
    LET own == IF s.has_master_data[e] THEN s.master_data[e] ELSE None
        src == s.data_source[e]
    IN  IF own = None /\ src # NoItem
        THEN LET g == GetData(IncrementDataRefCount(s, src), src)
             IN  [s |-> DecrementDataRefCount(g.s, src), v |-> g.v]
        ELSE [s |-> s, v |-> own]

\* "if len(operations) and data is not None": the operations are applied to
\* the root array up.v, then __get_data_range_for_data(data)
ProcessRootData(up, e) ==
    LET done == IF Len(up.s.operations[e]) > 0 /\ up.v # None
                THEN ApplyOperations(up.s, e, up.s.operations[e], up.v)
                ELSE up
    IN  [s |-> GetDataRangeForData(done.s, e, done.v), v |-> done.v]

\* Second, under __get_data_mutex and outside __data_mutex: the array is
\* derived from the state as it is now; [s |-> state after, v |-> the array].
DeriveData(s, e) == ProcessRootData(RootData(s, e), e)

\* Third, under __data_mutex again: the array is stored and marked clean.
PublishData(s, e, data) ==
    [s EXCEPT !.cached_data[e] = data, !.cached_data_dirty[e] = FALSE]

\* The recomputation inside DataItem.__get_data when no other thread runs
\* between its sections; the result is [s |-> the state after, v |-> the array].
ComputeData(s, e) ==
    LET d == DeriveData(s, e)
    IN  [s |-> PublishData(d.s, e, d.v), v |-> d.v]

\* faulty variant: __get_data without its cache test: every read recomputes
GetDataAlwaysComputes(s, e) == ComputeData(s, e)

\* DataItem.__get_data
GetData(s, e) ==
    IF MustCompute(s, e)
    THEN ComputeData(s, e)
    ELSE [s |-> s, v |-> s.cached_data[e]]

\* DataItem.__get_data_immediate (the "data" property): add_ref, get data, remove_ref
GetDataImmediate(s, e) ==
    LET g == GetData(IncrementDataRefCount(s, e), e)
    IN  [s |-> DecrementDataRefCount(g.s, e), v |-> g.v]

\* DataItem.__get_data_range (the "data_range" property)
GetDataRange(s, e) ==
    IF s.data_range[e] = NoRange
    THEN LET g == GetData(IncrementDataRefCount(s, e), e)
             s1 == GetDataRangeForData(g.s, e, g.v)
         IN  [s |-> DecrementDataRefCount(s1, e), v |-> s1.data_range[e]]
    ELSE [s |-> s, v |-> s.data_range[e]]

\* faulty variant: the shape and dtype taken from the computed data
GetDataShapeAndDtypeFromData(s, e) ==
    LET g == GetDataImmediate(s, e)
    IN  [s |-> g.s, v |-> DataShapeAndDtype(s, e)]

\* DataItem.__get_data_shape_and_dtype as a call: the state it leaves and
\* the value it returns
GetDataShapeAndDtype(s, e) == [s |-> s, v |-> DataShapeAndDtype(s, e)]

\* -------------------------------------------------------------- mutations
AssertionFailed(s, e, where) ==
    Emit(s, [type |-> "assert", item |-> e, at |-> where])

\* StorageBase.notify_set_data_reference: the datastore, when there is one,
\* records what a later load of "master_data" returns.
NotifySetDataReference(s, e, data) ==
    IF s.datastore[e] THEN [s EXCEPT !.stored[e] = data] ELSE s

\* DataItem.__set_master_data
SetMasterData(s, e, data) ==
    LET s0 == BeginDataItemChanges(s, e)
    IN  IF data # None /\ s0.data_source[e] # NoItem
        THEN EndDataItemChanges(AssertionFailed(s0, e, "set_master_data"), e)
        ELSE LET s1 == SyncIntrinsicSpatialCalibrations(
                           [s0 EXCEPT !.master_data[e] = data,
                                      !.master_data_shape[e] = ShapeAndDtypeOf(data),
                                      !.has_master_data[e] = (data # None)], e)
                 s2 == IF s1.master_data[e] # None
                       THEN LET r == GetDataRange(NotifySetDataReference(s1, e, data), e)
                            IN  NotifySetProperty(r.s, e)
                       ELSE s1
                 s3 == NotifyDataItemContentChanged(s2, e, {DATA})
             IN  EndDataItemChanges(s3, e)

\* DataItem.set_external_master_data; content is the array held by the file.
SetExternalMasterData(s, e, content) ==
    LET s1 == SyncIntrinsicSpatialCalibrations(
                  [s EXCEPT !.has_master_data[e] = TRUE,
                            !.master_data_shape[e] = ShapeAndDtypeOf(content)], e)
        r == GetDataRange(NotifySetDataReference(s1, e, content), e)
        s2 == NotifySetProperty(r.s, e)
    IN  NotifyDataItemContentChanged(s2, e, {DATA})

\* faulty variant: __set_data_source that leaves the item registered as a
\* listener of its former data source
SetDataSourceKeepsListener(s, e, source) ==
    IF source # NoItem /\ s.has_master_data[e]
    THEN AssertionFailed(s, e, "set_data_source")
    ELSE LET s1 == [s EXCEPT !.data_source[e] = NoItem]
         IN  IF source # NoItem
             THEN DataItemContentChanged(
                      [s1 EXCEPT !.data_source[e] = source,
                                 !.listeners[source] = @ \cup {e}],
                      e, source, {SOURCE})
             ELSE s1

\* DataItem.__set_data_source
SetDataSource(s, e, source) ==
    IF source # NoItem /\ s.has_master_data[e]
    THEN AssertionFailed(s, e, "set_data_source")
    ELSE LET old == s.data_source[e]
             s1 == IF old # NoItem
                   THEN [s EXCEPT !.listeners[old] = @ \ {e},
                                  !.data_source[e] = NoItem]
                   ELSE s
         IN  IF source # NoItem
             THEN DataItemContentChanged(
                      [s1 EXCEPT !.data_source[e] = source,
                                 !.listeners[source] = @ \cup {e}],
                      e, source, {SOURCE})
             ELSE s1

\* DataItem.connect_data_source(direct_data_source=source)
ConnectDataSource(s, e, source) == SetDataSource(s, e, source)

\* DataItem.disconnect_data_source
DisconnectDataSource(s, e) == SetDataSource(s, e, NoItem)

\* DataItem.add_operation: append_item, then the __insert_operation callback
AddOperation(s, e, op) ==
    NotifyDataItemContentChanged(
        [s EXCEPT !.operations[e] = Append(@, op)], e, {DATA})

RemoveAt(seq, i) == SubSeq(seq, 1, i - 1) \o SubSeq(seq, i + 1, Len(seq))

\* DataItem.remove_operation: remove_item, then the __remove_operation callback
RemoveOperation(s, e, i) ==
    NotifyDataItemContentChanged(
        [s EXCEPT !.operations[e] = RemoveAt(@, i)], e, {DATA})

RECURSIVE RemoveOperations(_, _)
\* about_to_delete: "for operation in self.operations: self.remove_operation(operation)"
RemoveOperations(s, e) ==
    IF s.operations[e] = <<>> THEN s
    ELSE RemoveOperations(RemoveOperation(s, e, 1), e)

\* DataItem.about_to_delete: the operations are removed, then
\* __set_data_source(None) and __set_master_data(None)
AboutToDelete(s, e) ==
    LET s1 == RemoveOperations([s EXCEPT !.closed[e] = TRUE], e)
    IN  SetMasterData(SetDataSource(s1, e, NoItem), e, None)

\* An operation's "enabled" property is set; it reports DataItem.operation_changed
OperationChanged(s, e, i, enabled) ==
    NotifyDataItemContentChanged(
        [s EXCEPT !.operations[e][i].enabled = enabled], e, {DATA})

\* ------------------------------------------- computation graph (Symbolic.py)
\* Python's None where a string is expected, and numbers tagged with their
\* Python type, as int(x), float(x) and complex(x, y) build them.
NoValue == "None"
NoScalar == [kind |-> "none", re |-> 0, im |-> 0]
PyInt(n) == [kind |-> "int", re |-> n, im |-> 0]
PyFloat(n) == [kind |-> "float", re |-> n, im |-> 0]
PyComplex(x, y) == [kind |-> "complex", re |-> x, im |-> y]

\* a leaf's __bound_item when it is None
NoBound == 0

\* A uuid is the pair <<tree, node>> that tells the nodes of the model apart;
\* this one stands for a uuid4() that is overwritten before it is used.
NoUuid == <<0, 0>>

\* _function_map and _function2_map (their keys), _node_map (its keys)
FunctionMap == {"abs", "neg", "pos", "add", "sub", "mul", "div", "truediv",
                "floordiv", "mod", "pow", "slice", "amin", "amax", "arange",
                "median", "average", "mean", "std", "var", "log", "log10", "log2"}
Function2Map == {"fft", "ifft", "autocorrelate", "crosscorrelate", "sobel",
                 "laplace", "gaussian_blur", "median_filter", "uniform_filter",
                 "transpose_flip", "crop", "slice_sum", "pick", "project",
                 "resample_image", "histogram", "line_profile"}
NodeMap == {"constant", "scalar", "unary", "binary", "function", "property",
            "reference", "data"}

\* What "_node_map[data_node_type]()" constructs: a node of that class whose
\* constructor got no argument. ConstantDataNode(None) sets no __scalar_type;
\* PropertyDataNode() keeps str(None) as its property.
NewNode(type) ==
    [type |-> type, uuid |-> NoUuid, inputs |-> <<>>, function_id |-> NoValue,
     args |-> {}, object_specifier |-> NoValue, property |-> NoValue,
     scalar |-> NoScalar, scalar_type |-> "unset", bound_item |-> NoBound]

\* ConstantDataNode(value)
ConstantDataNode(uuid, value) ==
    [NewNode("constant") EXCEPT
        !.uuid = uuid, !.scalar = value,
        !.scalar_type = CASE value.kind = "int" -> "integral"
                          [] value.kind = "float" -> "real"
                          [] value.kind = "complex" -> "complex"
                          [] OTHER -> "unset"]

\* ScalarOperationDataNode, UnaryOperationDataNode, BinaryOperationDataNode and
\* FunctionOperationDataNode(inputs, function_id, args); args is a dict, kept
\* as the set of its <<name, value>> items
OperationDataNode(type, uuid, inputs, function_id, args) ==
    [NewNode(type) EXCEPT !.uuid = uuid, !.inputs = inputs,
                          !.function_id = function_id, !.args = args]

\* DataItemDataNode(object_specifier)
DataItemDataNode(uuid, object_specifier) ==
    [NewNode("data") EXCEPT !.uuid = uuid, !.object_specifier = object_specifier]

\* PropertyDataNode(object_specifier, property)
PropertyDataNode(uuid, object_specifier, property) ==
    [NewNode("property") EXCEPT !.uuid = uuid, !.property = property,
                                !.object_specifier = object_specifier]

\* A dict written by write(): the keys it has and the value under each.
EmptyDict ==
    [keys |-> {}, uuid |-> NoUuid, inputs |-> <<>>, data_node_type |-> NoValue,
     function_id |-> NoValue, args |-> {}, object_specifier |-> NoValue,
     property |-> NoValue, scalar_type |-> NoValue, value |-> NoScalar]

\* a call that raised: nothing is returned
Raised == [ok |-> FALSE, d |-> EmptyDict]
RaisedNode == [ok |-> FALSE, node |-> NewNode("constant")]

RECURSIVE Write(_)
\* DataNode.write, then the write of the node's class on top of it
Write(n) ==
    LET ws == [i \in DOMAIN n.inputs |-> Write(n.inputs[i])]
        base == [EmptyDict EXCEPT
                    !.keys = {"uuid"} \cup (IF Len(n.inputs) > 0 THEN {"inputs"} ELSE {}),
                    !.uuid = n.uuid,
                    !.inputs = [i \in DOMAIN n.inputs |-> ws[i].d]]
        typed == [base EXCEPT !.keys = @ \cup {"data_node_type"},
                              !.data_node_type = n.type]
    IN  IF \E i \in DOMAIN ws : ~ws[i].ok THEN Raised
        ELSE IF n.type = "constant"
        THEN IF n.scalar_type = "unset"
             THEN Raised   \* AttributeError: no __scalar_type
             ELSE LET d == [typed EXCEPT !.keys = @ \cup {"scalar_type"},
                                         !.scalar_type = n.scalar_type]
                  IN  [ok |-> TRUE,
                       d |-> CASE n.scalar_type = "integral" ->
                                    [d EXCEPT !.keys = @ \cup {"value"},
                                              !.value = PyInt(n.scalar.re)]
                               [] n.scalar_type = "real" ->
                                    [d EXCEPT !.keys = @ \cup {"value"},
                                              !.value = PyFloat(n.scalar.re)]
                               [] n.scalar_type = "complex" ->
                                    [d EXCEPT !.keys = @ \cup {"value"},
                                              !.value = PyComplex(n.scalar.re, n.scalar.im)]
                               [] OTHER -> d]
        ELSE IF n.type \in {"scalar", "unary", "binary", "function"}
        THEN LET d == [typed EXCEPT !.keys = @ \cup {"function_id"},
                                    !.function_id = n.function_id]
             IN  [ok |-> TRUE,
                  d |-> IF n.args # {}
                        THEN [d EXCEPT !.keys = @ \cup {"args"}, !.args = n.args]
                        ELSE d]
        ELSE IF n.type = "data"
        THEN [ok |-> TRUE,
              d |-> [typed EXCEPT !.keys = @ \cup {"object_specifier"},
                                  !.object_specifier = n.object_specifier]]
        ELSE IF n.type = "property"
        THEN [ok |-> TRUE,
              d |-> [typed EXCEPT !.keys = @ \cup {"object_specifier", "property"},
                                  !.object_specifier = n.object_specifier,
                                  !.property = n.property]]
        ELSE Raised   \* ReferenceDataNode.write raises

RECURSIVE Read(_, _)
RECURSIVE Factory(_)
\* DataNode.read followed by the read of the node's class: node n takes its
\* fields from the dict d. DataNode.read builds each input with the factory
\* and reads the input's dict into it once more.
Read(n, d) ==
    LET made == [i \in DOMAIN d.inputs |-> Factory(d.inputs[i])]
        again == [i \in DOMAIN d.inputs |->
                    IF made[i].ok THEN Read(made[i].node, d.inputs[i])
                    ELSE RaisedNode]
        base == [n EXCEPT !.uuid = d.uuid,
                          !.inputs = [i \in DOMAIN d.inputs |-> again[i].node]]
    IN  IF "uuid" \notin d.keys \/ \E i \in DOMAIN again : ~again[i].ok
        THEN RaisedNode
        ELSE IF n.type = "constant"
        THEN LET scalar_type == IF "scalar_type" \in d.keys THEN d.scalar_type
                                ELSE NoValue
             IN  IF scalar_type \in {"integral", "real", "complex"}
                    /\ "value" \notin d.keys
                 THEN RaisedNode   \* KeyError
                 ELSE IF scalar_type = "integral"
                 THEN [ok |-> TRUE, node |-> [base EXCEPT !.scalar = PyInt(d.value.re)]]
                 ELSE IF scalar_type = "real"
                 THEN [ok |-> TRUE, node |-> [base EXCEPT !.scalar = PyFloat(d.value.re)]]
                 ELSE IF scalar_type = "complex"
                 THEN \* complex(*d["value"]): the value has to be a sequence
                      RaisedNode
                 ELSE [ok |-> TRUE, node |-> base]
        ELSE IF n.type \in {"scalar", "unary", "binary", "function"}
        THEN LET function_id == IF "function_id" \in d.keys THEN d.function_id
                                ELSE NoValue
                 known == IF n.type = "function" THEN Function2Map ELSE FunctionMap
             IN  IF function_id \notin known THEN RaisedNode
                 ELSE [ok |-> TRUE,
                       node |-> [base EXCEPT
                                   !.function_id = function_id,
                                   !.args = IF "args" \in d.keys THEN d.args ELSE {}]]
        ELSE IF n.type = "data"
        THEN IF "object_specifier" \notin d.keys THEN RaisedNode
             ELSE [ok |-> TRUE,
                   node |-> [base EXCEPT !.object_specifier = d.object_specifier]]
        ELSE IF n.type = "property"
        THEN IF {"object_specifier", "property"} \subseteq d.keys
             THEN [ok |-> TRUE,
                   node |-> [base EXCEPT !.object_specifier = d.object_specifier,
                                         !.property = d.property]]
             ELSE RaisedNode
        ELSE RaisedNode   \* ReferenceDataNode.read raises

\* DataNode.factory
Factory(d) ==
    IF "data_node_type" \notin d.keys \/ d.data_node_type \notin NodeMap
    THEN RaisedNode
    ELSE Read(NewNode(d.data_node_type), d)

\* ------------------------------------------------------------ Computation
\* "self.__data_node" when it is None, and a Computation after __init__
NoNode == [NewNode("constant") EXCEPT !.type = "none"]
NewComputation ==
    [data_node |-> NoNode, node |-> EmptyDict,
     bound_items |-> {}, bound_item_listeners |-> {}]

\* dict[key] = value, for a dict kept as the set of its <<key, value>> items
Put(dict, key, value) == {p \in dict : p[1] # key} \cup {<<key, value>>}

\* The object specifiers of the variable map: "a" and "b" are data items, "r"
\* is another object, whose properties are referred to.
Specifiers == {"A", "B", "R"}

\* context.resolve_object_specifier: a new Bound Item (the next index of
\* bound_items_made) when the context knows the specifier, None otherwise
Resolve(made, context, node) ==
    IF node.object_specifier \in context
    THEN [item |-> Len(made) + 1,
          made |-> Append(made, [specifier |-> node.object_specifier,
                                 closed |-> FALSE, listeners |-> 0])]
    ELSE [item |-> NoBound, made |-> made]

RECURSIVE Leaves(_)
\* the DataItemDataNode and PropertyDataNode leaves in the order bind visits them
Leaves(n) ==
    IF n.type \in {"data", "property"} THEN <<n>>
    ELSE IF Len(n.inputs) = 0 THEN <<>>
    ELSE IF Len(n.inputs) = 1 THEN Leaves(n.inputs[1])
    ELSE Leaves(n.inputs[1]) \o Leaves(n.inputs[2])

\* faulty variant: a leaf's bind without "assert self.__bound_item is not None"
BindLeafUnchecked(st, context, leaf) ==
    LET r == Resolve(st.made, context, leaf)
    IN  IF r.item = NoBound
        THEN [st EXCEPT !.unbound = @ \cup {leaf.uuid}]
        ELSE [st EXCEPT !.made = r.made,
                        !.bound_items = Put(@, leaf.uuid, r.item)]

\* DataItemDataNode.bind / PropertyDataNode.bind of one leaf, where st holds
\* the bound_items dict, the Bound Items made so far and whether an assertion
\* has failed (after which nothing more is done)
BindLeaf(st, context, leaf) ==
    LET r == Resolve(st.made, context, leaf)
    IN  IF ~st.ok THEN st
        ELSE IF r.item = NoBound
        THEN [st EXCEPT !.ok = FALSE, !.unbound = @ \cup {leaf.uuid}]
        ELSE [st EXCEPT !.made = r.made,
                        !.bound_items = Put(@, leaf.uuid, r.item)]

RECURSIVE BindLeaves(_, _, _, _)
\* DataNode.bind over the tree: the leaves one after the other
BindLeaves(st, context, leaves, i) ==
    IF i > Len(leaves) THEN st
    ELSE BindLeaves(BindLeaf(st, context, leaves[i]), context, leaves, i + 1)

RECURSIVE SetBound(_, _, _)
\* the leaves' __bound_item after bind: the item recorded for the node's
\* uuid (one node object has one uuid), None where the resolution failed, and
\* what it was before for a leaf that bind did not reach
SetBound(n, bound_items, unbound) ==
    IF n.type \in {"data", "property"}
    THEN IF n.uuid \in unbound THEN [n EXCEPT !.bound_item = NoBound]
         ELSE IF \E p \in bound_items : p[1] = n.uuid
         THEN [n EXCEPT !.bound_item = (CHOOSE p \in bound_items : p[1] = n.uuid)[2]]
         ELSE n
    ELSE [n EXCEPT !.inputs = [i \in DOMAIN n.inputs |->
                                  SetBound(n.inputs[i], bound_items, unbound)]]

\* faulty variant: changed_event.listen that registers the callback twice
ListenTwice(made, item) == [made EXCEPT ![item].listeners = @ + 2]

\* bound_item.changed_event.listen(needs_update)
Listen(made, item) == [made EXCEPT ![item].listeners = @ + 1]

RECURSIVE ListenAll(_, _)
\* the loop of Computation.bind over self.__bound_items.items()
ListenAll(made, todo) ==
    IF todo = {} THEN made
    ELSE LET p == CHOOSE x \in todo : TRUE
         IN  ListenAll(Listen(made, p[2]), todo \ {p})

\* the result of a call on the Computation: its fields and the Bound Items
\* after the call, and whether the call raised
Returned(c, made) == [c |-> c, made |-> made, raised |-> FALSE]
RaisedIn(c, made) == [c |-> c, made |-> made, raised |-> TRUE]

\* self.__data_node.bind(...) can be called: None and a Python number have no
\* bind, and the bind of a ReferenceDataNode raises
HasBind(n) == n # NoNode /\ n.type \notin {"number", "reference"}

\* faulty variant: Computation.bind without "assert len(self.__bound_items) == 0"
ComputationBindUnasserted(c, made, context) ==
    LET st == BindLeaves([ok |-> TRUE, bound_items |-> c.bound_items,
                          made |-> made, unbound |-> {}],
                         context, Leaves(c.data_node), 1)
        c1 == [c EXCEPT !.bound_items = st.bound_items,
                        !.data_node = SetBound(@, st.bound_items, st.unbound)]
    IN  IF ~HasBind(c.data_node) THEN RaisedIn(c, made)
        ELSE IF ~st.ok THEN RaisedIn(c1, st.made)
        ELSE Returned([c1 EXCEPT !.bound_item_listeners = c1.bound_items],
                      ListenAll(st.made, c1.bound_items))

\* Computation.bind
ComputationBind(c, made, context) ==
    LET st == BindLeaves([ok |-> TRUE, bound_items |-> c.bound_items,
                          made |-> made, unbound |-> {}],
                         context, Leaves(c.data_node), 1)
        c1 == [c EXCEPT !.bound_items = st.bound_items,
                        !.data_node = SetBound(@, st.bound_items, st.unbound)]
    IN  IF c.bound_items # {} THEN RaisedIn(c, made)        \* the assertion
        ELSE IF ~HasBind(c.data_node) THEN RaisedIn(c, made)
        ELSE IF ~st.ok THEN RaisedIn(c1, st.made)
        ELSE Returned([c1 EXCEPT !.bound_item_listeners = c1.bound_items],
                      ListenAll(st.made, c1.bound_items))

\* Computation.unbind: zip() pairs the Bound Items with the listeners, so when
\* there are no listeners nothing is closed; then both dicts are replaced
ComputationUnbind(c, made) ==
    LET closing == IF c.bound_item_listeners = {} THEN {}
                   ELSE {p[2] : p \in c.bound_items}
        heard == {p[2] : p \in c.bound_item_listeners}
    IN  Returned([c EXCEPT !.bound_items = {}, !.bound_item_listeners = {}],
                 [k \in DOMAIN made |->
                    [made[k] EXCEPT
                       !.closed = @ \/ k \in closing,
                       !.listeners = IF k \in heard /\ closing # {}
                                     THEN @ - 1 ELSE @]])

\* The expression texts given to parse_expression, with the variable map
\* {a: data item "A", b: data item "B", r: object "R"}.
RemoveFile == "__import__('os').remove('f')"
Expressions == {"a", "a + 2", "a + a", "a + b", "-r.x", "a +", "2", "r", RemoveFile}

\* What exec of "result = <script>" does besides building nodes. The globals
\* dict g holds the registry functions and the variables and no "__builtins__"
\* key, so exec adds the interpreter's builtins to it and the script can call
\* them: os.remove returns None once the file is gone.
HostActions(expression) ==
    IF expression = RemoveFile THEN {"os.remove('f')"} ELSE {}

\* parse_expression(calculation_script, variable_map): the tree that exec of
\* "result = <script>" builds through the operators of DataNode, with new
\* uuids <<tree, 0..2>>, or None (NoNode) when exec raises. "2" leaves the
\* Python int 2 in result, which is no node, "r" the ReferenceDataNode of the
\* variable, and os.remove(...) returns None.
ParseExpression(expression, tree) ==
    LET a == DataItemDataNode(<<tree, 1>>, "A")
        b == DataItemDataNode(<<tree, 2>>, "B")
    IN  CASE expression = "a" -> a
          [] expression = "a + 2" ->
                OperationDataNode("binary", <<tree, 0>>,
                                  <<a, ConstantDataNode(<<tree, 2>>, PyInt(2))>>, "add", {})
          [] expression = "a + a" ->
                OperationDataNode("binary", <<tree, 0>>, <<a, a>>, "add", {})
          [] expression = "a + b" ->
                OperationDataNode("binary", <<tree, 0>>, <<a, b>>, "add", {})
          [] expression = "-r.x" ->
                OperationDataNode("unary", <<tree, 0>>,
                                  <<PropertyDataNode(<<tree, 1>>, "R", "x")>>, "neg", {})
          [] expression = "2" -> [NewNode("number") EXCEPT !.scalar = PyInt(2)]
          [] expression = "r" ->
                [NewNode("reference") EXCEPT !.uuid = <<tree, 1>>,
                                             !.object_specifier = "R"]
          [] OTHER -> NoNode

\* Computation.parse_expression
ComputationParseExpression(c, made, context, expression, tree) ==
    LET data_node == ParseExpression(expression, tree)
        c1 == [c EXCEPT !.data_node = data_node]
        w == Write(data_node)
    IN  IF data_node = NoNode THEN Returned(c1, made)
        ELSE IF ~w.ok THEN RaisedIn(c1, made)
        ELSE ComputationBind([c1 EXCEPT !.node = w.d], made, context)

\* Computation.evaluate: None without a tree, else the value of the tree, which
\* is a function of the tree and of the Bound Items its leaves hold; a leaf
\* without a Bound Item makes it raise
Evaluate(c) ==
    IF c.data_node = NoNode THEN [raised |-> FALSE, value |-> NoNode]
    ELSE [raised |-> \/ c.data_node.type \in {"number", "reference"}
                     \/ \E i \in DOMAIN Leaves(c.data_node) :
                           Leaves(c.data_node)[i].bound_item = NoBound,
          value |-> c.data_node]

\* the needs_update calls made when the changed_event of a Bound Item fires
NeedsUpdateFired(made, item) == made[item].listeners

\* The history "called" keeps the last call on the Computation, whether it
\* raised, whether its expression parsed, how often needs_update fired, how
\* many trees were parsed, whether a bind has completed that no unbind has
\* followed, and the objects the resolution context of the call knew.
NoCall == [op |-> "none", raised |-> FALSE, parsed |-> FALSE, fired |-> 0,
           item |-> NoBound, trees |-> 0, bound |-> FALSE, context |-> {}]

\* no tree is being taken through write and read
NoRoundTrip == [stage |-> "none", tree |-> NoNode, written |-> Raised,
                reread |-> RaisedNode, rewritten |-> Raised]

\* ------------------------------------------------------------- the locks
\* What a call does to the locks of the items, in order: a sequence of
\* "acquire" and "release" of one of the RLocks of an item: "data" for
\* __data_mutex, "get" for __get_data_mutex, "ref" for __data_ref_count_mutex
\* and "change" for __data_item_change_mutex.
\* "with <lock of e>: body"
WithLock(e, lock, body) ==
    <<[do |-> "acquire", item |-> e, lock |-> lock]>> \o body
        \o <<[do |-> "release", item |-> e, lock |-> lock]>>

RECURSIVE ShapeLocks(_, _)
RECURSIVE RefLocks(_, _, _)
RECURSIVE GetDataLocks(_, _)
RECURSIVE NotifyLocks(_, _, _)
RECURSIVE ListenersLocks(_, _, _, _)

\* __get_data_shape_and_dtype: under the data mutex of e, data_shape and then
\* data_dtype of the data source are read when e has no master data
ShapeLocks(s, e) ==
    WithLock(e, "data",
             IF ~s.has_master_data[e] /\ s.data_source[e] # NoItem
             THEN ShapeLocks(s, s.data_source[e]) \o ShapeLocks(s, s.data_source[e])
             ELSE <<>>)

\* increment_data_ref_count (op "inc") and decrement_data_ref_count ("dec")
RefLocks(s, op, e) ==
    WithLock(e, "ref",
             IF /\ s.data_ref_count[e] = (IF op = "inc" THEN 0 ELSE 1)
                /\ s.data_source[e] # NoItem
             THEN RefLocks(s, op, s.data_source[e])
             ELSE <<>>)

\* __get_data_range_for_data reads is_data_rgb_type of an array that is there
RangeForDataLocks(s, e, data) == IF data # None THEN ShapeLocks(s, e) ELSE <<>>

\* the fetch from the data source in __get_data, made in a data_ref of it
SourceDataLocks(s, e, src) ==
    IF (IF s.has_master_data[e] THEN s.master_data[e] ELSE None) = None
       /\ src # NoItem
    THEN RefLocks(s, "inc", src)
         \o GetDataLocks(IncrementDataRefCount(s, src), src)
         \o RefLocks(GetData(IncrementDataRefCount(s, src), src).s, "dec", src)
    ELSE <<>>

\* __get_data: the test under the data mutex; the computation under the get
\* mutex; the publication under the data mutex
GetDataLocks(s, e) ==
    WithLock(e, "data", <<>>)
    \o IF MustCompute(s, e)
       THEN WithLock(e, "get", SourceDataLocks(s, e, s.data_source[e])
                                \o RangeForDataLocks(s, e, DeriveData(s, e).v))
            \o WithLock(e, "data", <<>>)
       ELSE <<>>

\* with self.data_ref() as data_ref: data_ref.data, then the range of it
DataRefLocks(s, e) ==
    RefLocks(s, "inc", e)
    \o GetDataLocks(IncrementDataRefCount(s, e), e)
    \o RangeForDataLocks(s, e, GetData(IncrementDataRefCount(s, e), e).v)
    \o RefLocks(GetData(IncrementDataRefCount(s, e), e).s, "dec", e)

\* the data_range property
DataRangeLocks(s, e) ==
    WithLock(e, "data", <<>>)
    \o IF s.data_range[e] = NoRange THEN DataRefLocks(s, e) ELSE <<>>

\* sync_intrinsic_spatial_calibrations: spatial_shape is read, and a list of
\* another length is assigned, which notifies METADATA
SyncLocks(s, e) ==
    ShapeLocks(s, e)
    \o IF Len(s.intrinsic_spatial_calibrations[e]) # SpatialDimensions(s, e)
          /\ ~s.closed[e]
       THEN NotifyLocks(s, e, {METADATA})
       ELSE <<>>

\* data_item_content_changed of the listener d of e
ContentChangedLocks(s, d, e, changes) ==
    SyncLocks(s, d)
    \o IF e = s.data_source[d] /\ DATA \in changes
       THEN NotifyLocks(SyncIntrinsicSpatialCalibrations(s, d), d, changes)
       ELSE <<>>

\* notify_listeners("data_item_content_changed", self, changes)
ListenersLocks(s, e, changes, todo) ==
    IF todo = {} THEN <<>>
    ELSE LET d == CHOOSE x \in todo : TRUE
         IN  ContentChangedLocks(s, d, e, changes)
             \o ListenersLocks(DataItemContentChanged(s, d, e, changes),
                               e, changes, todo \ {d})

\* the part of end_data_item_changes outside the change mutex
DeliverLocks(s, e, changes) ==
    (IF DATA \in changes \/ SOURCE \in changes
     THEN WithLock(e, "data", <<>>) ELSE <<>>)
    \o ListenersLocks(s, e, changes, s.listeners[e])

\* notify_data_item_content_changed: begin, update and end each take the
\* change mutex; with no span open the end delivers
NotifyLocks(s, e, changes) ==
    WithLock(e, "change", <<>>) \o WithLock(e, "change", <<>>)
    \o WithLock(e, "change", <<>>)
    \o IF s.data_item_change_count[e] = 0
       THEN DeliverLocks(s, e, changes \cup s.data_item_changes[e])
       ELSE <<>>

\* what set_external_master_data does after the data mutex section
AfterExternalLocks(s, e, content) ==
    DataRangeLocks(NotifySetDataReference(s, e, content), e)
    \o NotifyLocks(GetDataRange(NotifySetDataReference(s, e, content), e).s,
                   e, {METADATA})
    \o NotifyLocks(NotifySetProperty(
                       GetDataRange(NotifySetDataReference(s, e, content), e).s, e),
                   e, {DATA})

\* what the part of set_external_master_data under the data mutex sees
UnderExternal(s, e, content) ==
    [s EXCEPT !.has_master_data[e] = TRUE,
              !.master_data_shape[e] = ShapeAndDtypeOf(content)]

\* set_external_master_data: the fields and the sync of the calibrations
\* under the data mutex, the notifications after it
ExternalLocks(s, e, content) ==
    WithLock(e, "data", SyncLocks(UnderExternal(s, e, content), e))
    \o AfterExternalLocks(
           SyncIntrinsicSpatialCalibrations(UnderExternal(s, e, content), e),
           e, content)

\* ------------------------------------------------------ GraphicSelection
\* anchor_index is kept as a set: empty for None, else the one index.
\* GraphicSelection.__init__
NewGraphicSelection == [indexes |-> {}, anchor_index |-> {}, op |-> "init"]

\* the least index of a set that is not empty
Least(S) == CHOOSE i \in S : \A j \in S : i <= j

\* GraphicSelection.clear
SelectionClear(sel) == [indexes |-> {}, anchor_index |-> {}, op |-> "clear"]

\* GraphicSelection.__update_anchor_index: every index takes the place of an
\* anchor that is None or greater
UpdateAnchorIndex(indexes, anchor_index) ==
    IF indexes \cup anchor_index = {} THEN {}
    ELSE {Least(indexes \cup anchor_index)}

\* GraphicSelection.add
SelectionAdd(sel, index) ==
    [indexes |-> sel.indexes \cup {index},
     anchor_index |-> IF sel.indexes = {} THEN {index} ELSE sel.anchor_index,
     op |-> "add"]

\* GraphicSelection.remove, of an index that is selected
SelectionRemove(sel, index) ==
    LET indexes == sel.indexes \ {index}
    IN  [indexes |-> indexes,
         anchor_index |-> IF sel.anchor_index \subseteq indexes
                             /\ sel.anchor_index # {}
                          THEN sel.anchor_index
                          ELSE UpdateAnchorIndex(indexes, sel.anchor_index),
         op |-> "remove"]

\* GraphicSelection.set
SelectionSet(sel, index) ==
    [indexes |-> {index}, anchor_index |-> {index}, op |-> "set"]

\* GraphicSelection.toggle
SelectionToggle(sel, index) ==
    [(IF index \in sel.indexes THEN SelectionRemove(sel, index)
      ELSE SelectionAdd(sel, index)) EXCEPT !.op = "toggle"]

\* GraphicSelection.insert_index
InsertIndex(sel, new_index) ==
    [indexes |-> {IF index < new_index THEN index ELSE index + 1 :
                     index \in sel.indexes},
     anchor_index |-> {IF new_index <= a THEN a + 1 ELSE a : a \in sel.anchor_index},
     op |-> "insert_index"]

\* GraphicSelection.remove_index: the anchor is updated against the indexes
\* as they were, before the new ones are assigned
RemoveIndex(sel, remove_index) ==
    [indexes |-> {IF index > remove_index THEN index - 1 ELSE index :
                     index \in sel.indexes \ {remove_index}},
     anchor_index |-> IF sel.anchor_index = {remove_index}
                      THEN UpdateAnchorIndex(sel.indexes, sel.anchor_index)
                      ELSE {IF remove_index < a THEN a - 1 ELSE a :
                               a \in sel.anchor_index},
     op |-> "remove_index"]

\* ----------------------------------------------------------- DisplayItem
\* DisplayItem.__init__; increments and decrements are the numbers of
\* increment_data_ref_count and decrement_data_ref_count calls that the
\* display item made on each data item, and calls the number of its own
\* operations so far (history)
NewDisplayItem ==
    [display_ref_count |-> 0, data_items |-> <<>>,
     increments |-> [e \in Items |-> 0], decrements |-> [e \in Items |-> 0],
     calls |-> 0, op |-> "init"]

\* the data items of a display item, as a set
Members(d) == {d.data_items[i] : i \in DOMAIN d.data_items}

\* DisplayItem.increment_display_ref_count
IncrementDisplayRefCount(d, amount) ==
    [d EXCEPT !.display_ref_count = @ + amount,
              !.increments = [e \in Items |->
                                 IF e \in Members(d) THEN @[e] + amount ELSE @[e]],
              !.calls = @ + 1, !.op = "increment_display_ref_count"]

\* DisplayItem.decrement_display_ref_count
DecrementDisplayRefCount(d, amount) ==
    [d EXCEPT !.display_ref_count = @ - amount,
              !.decrements = [e \in Items |->
                                 IF e \in Members(d) THEN @[e] + amount ELSE @[e]],
              !.calls = @ + 1, !.op = "decrement_display_ref_count"]

\* DisplayItem.insert_data_item
InsertDataItem(d, before_index, data_item) ==
    [d EXCEPT !.data_items = SubSeq(@, 1, before_index) \o <<data_item>>
                                 \o SubSeq(@, before_index + 1, Len(@)),
              !.calls = @ + 1, !.op = "insert_data_item"]

\* DisplayItem.remove_data_item
RemoveDataItem(d, data_item) ==
    LET NotIt(x) == x # data_item
    IN  [d EXCEPT !.data_items = SelectSeq(@, NotIt),
                  !.calls = @ + 1, !.op = "remove_data_item"]

\* ------------------------------------------------------------ the machine
\* The threads that use data_ref(): what a thread is calling ("idle", "inc" for
\* increment_data_ref_count, "dec" for decrement_data_ref_count), the item
\* whose method it enters next, the items whose __data_ref_count_mutex it
\* holds (outermost first), and the data_refs it has entered and not exited.
Threads == {"t1", "t2"}
\* The part of a thread that is inside change spans of an item: how many
\* begin_data_item_changes of its own are open, the locals "changes" and
\* "data_item_change_count" of the end_data_item_changes it is running, and
\* (history) the kinds that were recorded up to the moment it left the mutex.
NoSpan == [depth |-> 0, count |-> 0, changes |-> {}, due |-> {}]
IdleThread == [op |-> "idle", target |-> NoItem, next |-> NoItem, held |-> <<>>,
               refs |-> [e \in Items |-> 0], span |-> NoSpan,
               \* what the call the thread is in still does to the locks, and
               \* the locks the thread holds, innermost last
               plan |-> <<>>, locks |-> <<>>]

RECURSIVE Upstream(_, _)
\* the items e draws its data from: its data source, that item's source, ...
Upstream(source, e) ==
    IF source[e] = NoItem THEN {} ELSE {source[e]} \cup Upstream(source, source[e])

NoRun == [item |-> NoItem, acquired |-> 0, released |-> 0, start_item |-> 0,
          source |-> NoItem, start_source |-> 0, upstream_idle |-> FALSE,
          unloads |-> 0]

\* how many events of one type concern an item of the set S
Count(evs, type, S) ==
    Cardinality({i \in DOMAIN evs : evs[i].type = type /\ evs[i].item \in S})

RefCountOf(e) == IF e = NoItem THEN 0 ELSE data_ref_count[e]

\* the streak of acquires on one item followed by releases of the same item:
\* the ref-counts it started from, whether every item upstream of e was
\* unreferenced then, and how many unloads of upstream items were attempted
NextRun(label, e, s2) ==
    IF label = "increment_data_ref_count"
    THEN IF run.item = e /\ run.released = 0
         THEN [run EXCEPT !.acquired = @ + 1]
         ELSE [item |-> e, acquired |-> 1, released |-> 0,
               start_item |-> data_ref_count[e], source |-> data_source[e],
               start_source |-> RefCountOf(data_source[e]),
               upstream_idle |-> \A u \in Upstream(data_source, e) :
                                    data_ref_count[u] = 0,
               unloads |-> 0]
    ELSE IF label = "decrement_data_ref_count" /\ run.item = e
                /\ run.released < run.acquired
         THEN [run EXCEPT !.released = @ + 1,
                          !.unloads = @ + Count(s2.events, "unload",
                                                Upstream(data_source, e))]
         ELSE NoRun

InBounds(s) ==
    \A e \in Items :
        /\ s.data_ref_count[e] \in (0 - 1)..MaxRefCount
        /\ s.data_item_change_count[e] \in 0..MaxChangeCount

HasAssert(evs) == \E i \in DOMAIN evs : evs[i].type = "assert"

\* the raw array of e was dropped from memory during the operation
Dropped(evs, e) ==
    \E i \in DOMAIN evs :
        evs[i].type = "unload" /\ evs[i].item = e /\ evs[i].dropped

Mutations == {"set_master_data", "set_external_master_data", "connect_data_source",
              "disconnect_data_source", "add_operation", "remove_operation",
              "operation_changed", "set_spatial_calibration", "about_to_delete"}

\* the fields of the data items after one operation (or one critical section
\* of it) on item e took them from the current state to s2
Install(label, e, s2, result) ==
    /\ InBounds(s2)
    /\ label \in Mutations => mutations < MaxMutations
    /\ mutations' = IF label \in Mutations THEN mutations + 1 ELSE mutations
    /\ master_data' = s2.master_data
    /\ has_master_data' = s2.has_master_data
    /\ data_source' = s2.data_source
    /\ operations' = s2.operations
    /\ cached_data' = s2.cached_data
    /\ cached_data_dirty' = s2.cached_data_dirty
    /\ data_range' = s2.data_range
    /\ data_range_dirty' = s2.data_range_dirty
    /\ data_ref_count' = s2.data_ref_count
    /\ data_item_change_count' = s2.data_item_change_count
    /\ data_item_changes' = s2.data_item_changes
    /\ listeners' = s2.listeners
    /\ stored' = s2.stored
    /\ master_data_shape' = s2.master_data_shape
    /\ intrinsic_spatial_calibrations' = s2.intrinsic_spatial_calibrations
    /\ recorded' = s2.recorded
    /\ events' = s2.events
    /\ last' = LET again == last.op = label /\ last.item = e
               IN  [op |-> label, item |-> e, result |-> result,
                    failed |-> HasAssert(s2.events),
                    repeated |-> again,
                    prev_result |-> IF again THEN last.result ELSE None,
                    prev_dropped |-> again /\ Dropped(events, e)]
    /\ run' = NextRun(label, e, s2)
    /\ UNCHANGED <<datastore, transaction_count>>

\* one operation on item e, made while no thread is inside an acquire or release
Step(label, e, s2, result) ==
    /\ Install(label, e, s2, result)
    /\ UNCHANGED threads
    /\ UNCHANGED inflight
    /\ UNCHANGED <<symbolic_vars, display_vars>>

\* a thread that is not inside __get_data
IdleFlight == [pc |-> "idle", item |-> NoItem, data |-> None]

Init ==
    /\ master_data = [e \in Items |-> None]
    /\ has_master_data = [e \in Items |-> FALSE]
    /\ data_source = [e \in Items |-> NoItem]
    /\ operations = [e \in Items |-> <<>>]
    /\ cached_data = [e \in Items |-> None]
    /\ cached_data_dirty = [e \in Items |-> TRUE]
    /\ data_range = [e \in Items |-> NoRange]
    /\ data_range_dirty = [e \in Items |-> TRUE]
    /\ data_ref_count = [e \in Items |-> 0]
    /\ data_item_change_count = [e \in Items |-> 0]
    /\ data_item_changes = [e \in Items |-> {}]
    /\ listeners = [e \in Items |-> {}]
    /\ datastore \in [Items -> BOOLEAN]
    /\ transaction_count \in [Items -> 0..1]
    /\ stored = [e \in Items |-> None]
    /\ master_data_shape = [e \in Items |-> NoShape]
    /\ intrinsic_spatial_calibrations = [e \in Items |-> <<>>]
    /\ recorded = [e \in Items |-> {}]
    /\ events = <<>>
    /\ last = [op |-> "init", item |-> NoItem, result |-> None, failed |-> FALSE,
               repeated |-> FALSE, prev_result |-> None, prev_dropped |-> FALSE]
    /\ mutations = 0
    /\ run = NoRun
    /\ threads = [t \in Threads |-> IdleThread]
    /\ inflight = [t \in Threads |-> IdleFlight]
    /\ roundtrip = NoRoundTrip
    /\ computation = NewComputation
    /\ bound_items_made = <<>>
    /\ called = NoCall
    /\ host = {}
    /\ graphic_selection = NewGraphicSelection
    /\ display_item = NewDisplayItem

\* data_ref.master_data = data, with data drawn from D
SetMasterDataAct(e, D) ==
    \E d \in D : Step("set_master_data", e, SetMasterData(Pack, e, d), d)

SetExternalMasterDataAct(e, D) ==
    \E c \in D :
        Step("set_external_master_data", e, SetExternalMasterData(Pack, e, c), c)

\* connect_data_source to one of the items of S; a data item is never made its
\* own source, directly or through a chain
ConnectDataSourceAct(e, S) ==
    \E src \in S \ {e} :
        /\ e \notin Upstream(data_source, src)
        /\ Step("connect_data_source", e, ConnectDataSource(Pack, e, src), None)

DisconnectDataSourceAct(e) ==
    Step("disconnect_data_source", e, DisconnectDataSource(Pack, e), None)

\* an operation object is held by one chain at a time; a new one is enabled
AddOperationAct(e) ==
    \E id \in OpIds :
        /\ \A x \in Items : \A i \in DOMAIN operations[x] : operations[x][i].id # id
        /\ Step("add_operation", e,
                AddOperation(Pack, e, [id |-> id, enabled |-> TRUE]), None)

RemoveOperationAct(e) ==
    \E i \in DOMAIN operations[e] :
        Step("remove_operation", e, RemoveOperation(Pack, e, i), None)

OperationChangedAct(e) ==
    \E i \in DOMAIN operations[e] :
        Step("operation_changed", e,
             OperationChanged(Pack, e, i, ~operations[e][i].enabled), None)

\* the result kept for the history is what the item had when it was torn down
AboutToDeleteAct(e) ==
    Step("about_to_delete", e, AboutToDelete(Pack, e),
         [had_source |-> data_source[e], had_operations |-> Len(operations[e])])

IncrementDataRefCountAct(e) ==
    Step("increment_data_ref_count", e, IncrementDataRefCount(Pack, e), None)

DecrementDataRefCountAct(e) ==
    /\ data_ref_count[e] > 0
    /\ Step("decrement_data_ref_count", e, DecrementDataRefCount(Pack, e), None)

\* data_item.data
GetDataImmediateAct(e) ==
    LET g == GetDataImmediate(Pack, e) IN Step("data", e, g.s, g.v)

\* data_ref.data, inside "with data_item.data_ref() as data_ref"
GetDataAct(e) ==
    /\ data_ref_count[e] > 0
    /\ LET g == GetData(Pack, e) IN Step("data_ref.data", e, g.s, g.v)

\* data_item.data_range
GetDataRangeAct(e) ==
    LET g == GetDataRange(Pack, e) IN Step("data_range", e, g.s, g.v)

\* data_item.data_shape_and_dtype
DataShapeAndDtypeAct(e) ==
    LET g == GetDataShapeAndDtype(Pack, e)
    IN  Step("data_shape_and_dtype", e, g.s, g.v)

SetSpatialCalibrationAct(e, C) ==
    \E dimension \in 0..MaxDimension, calibration \in C :
        Step("set_spatial_calibration", e,
             SetSpatialCalibration(Pack, e, dimension, calibration), None)

BeginDataItemChangesAct(e) ==
    Step("begin_data_item_changes", e, BeginDataItemChanges(Pack, e), None)

EndDataItemChangesAct(e) ==
    /\ data_item_change_count[e] > 0
    /\ Step("end_data_item_changes", e, EndDataItemChanges(Pack, e), None)

NotifyDataItemContentChangedAct(e, K) ==
    \E k \in K :
        Step("notify_data_item_content_changed", e,
             NotifyDataItemContentChanged(Pack, e, {k}), None)

\* notify_data_item_content_changed(K) on an item with no change span open,
\* while an observer is registered that records a change of the kinds X on
\* the same item from inside its callback
NotifyObservedAct(e, K, X) ==
    /\ data_item_change_count[e] = 0
    /\ \E k \in K, x \in X :
        Step("notify_observed", e,
             NotifyDataItemContentChanged([Pack EXCEPT !.observer[e] = {x}],
                                          e, {k}),
             [changes |-> {k}, further |-> {x}])

\* the items whose ref-count mutex is held by a thread other than t
LockedByOther(t) ==
    {e \in Items : \E u \in Threads \ {t} :
                      \E i \in DOMAIN threads[u].held : threads[u].held[i] = e}

\* no thread has entered a data_ref yet
Quiet ==
    /\ \A t \in Threads : threads[t] = IdleThread
    /\ last.op \notin {"thread_call", "thread_increment", "thread_decrement"}

\* thread t calls DataAccessor.__enter__ (op "inc") or __exit__ (op "dec") of a
\* data_ref of item e; a data_ref is exited only after it was entered
ThreadCallAct(t, e, op) ==
    /\ threads[t].op = "idle"
    /\ op = "dec" => threads[t].refs[e] > 0
    /\ op = "inc" => data_ref_count[e] < MaxRefCount
    /\ threads' = [threads EXCEPT ![t].op = op, ![t].target = e, ![t].next = e,
                                  ![t].refs[e] = IF op = "dec" THEN @ - 1 ELSE @]
    /\ events' = <<>>
    /\ last' = [last EXCEPT !.op = "thread_call", !.item = e, !.result = None,
                            !.failed = FALSE, !.repeated = FALSE,
                            !.prev_result = None, !.prev_dropped = FALSE]
    /\ run' = NoRun
    /\ UNCHANGED <<master_data, has_master_data, data_source, operations,
                   cached_data, cached_data_dirty, data_range, data_range_dirty,
                   data_ref_count, data_item_change_count, data_item_changes,
                   listeners, datastore, transaction_count, stored,
                   master_data_shape, intrinsic_spatial_calibrations, recorded,
                   mutations, inflight>>
    /\ UNCHANGED <<symbolic_vars, display_vars>>

\* thread t takes the ref-count mutex of the item it enters and runs the body
\* of the method: either it goes on into the data source, still holding the
\* mutex, or the call returns and every mutex taken on the way is given back
ThreadEnterAct(t) ==
    LET th == threads[t]
        e  == th.next
        inc == th.op = "inc"
        s2 == IF inc THEN IncrementSection(Pack, e) ELSE DecrementSection(Pack, e)
    IN  /\ th.op # "idle"
        /\ e \notin LockedByOther(t)
        /\ Install(IF inc THEN "thread_increment" ELSE "thread_decrement", e, s2, None)
        /\ threads' =
             IF CallsSource(Pack, th.op, e)
             THEN [threads EXCEPT ![t].next = data_source[e],
                                  ![t].held = Append(@, e)]
             ELSE [threads EXCEPT ![t].op = "idle", ![t].next = NoItem,
                                  ![t].target = NoItem, ![t].held = <<>>,
                                  ![t].refs[th.target] = IF inc THEN @ + 1 ELSE @]
        /\ UNCHANGED inflight
        /\ UNCHANGED <<symbolic_vars, display_vars>>

\* ----------------------------------------------------------------------
\* Change spans of item e run by threads, one mutex section at a time.
\* thread t runs begin_data_item_changes of e
ThreadBeginAct(t, e) ==
    /\ threads[t].op \in {"idle", "span"}
    /\ threads[t].op = "span" => threads[t].target = e
    /\ Install("thread_begin", e, BeginDataItemChanges(Pack, e), None)
    /\ threads' = [threads EXCEPT ![t].op = "span", ![t].target = e,
                                  ![t].span.depth = @ + 1]
    /\ UNCHANGED inflight
    /\ UNCHANGED <<symbolic_vars, display_vars>>

\* thread t, inside a span, runs the mutex section of
\* notify_data_item_content_changed: self.__data_item_changes.update(changes)
ThreadRecordAct(t, K) ==
    /\ threads[t].op = "span"
    /\ \E k \in K :
        LET e == threads[t].target
        IN  Install("thread_record", e,
                    [Pack EXCEPT !.data_item_changes[e] = @ \cup {k},
                                 !.recorded[e] = @ \cup {k}], {k})
    /\ UNCHANGED threads
    /\ UNCHANGED inflight
    /\ UNCHANGED <<symbolic_vars, display_vars>>

\* thread t runs the mutex section of end_data_item_changes; when its local
\* count is 0 it goes on to the part outside the mutex with the set it took
ThreadEndAct(t) ==
    LET th == threads[t]
        e  == th.target
        s1 == EndSection(Pack, e)
        count == s1.data_item_change_count[e]
    IN  /\ th.op = "span"
        /\ Install("thread_end", e,
                   IF count = 0 THEN [s1 EXCEPT !.recorded[e] = {}] ELSE s1, count)
        /\ threads' =
             IF count = 0
             THEN [threads EXCEPT ![t].op = "deliver",
                                  ![t].span = [depth |-> th.span.depth - 1,
                                               count |-> count,
                                               changes |-> data_item_changes[e],
                                               due |-> recorded[e]]]
             ELSE IF th.span.depth = 1
                  THEN [threads EXCEPT ![t] = [IdleThread EXCEPT !.refs = th.refs]]
                  ELSE [threads EXCEPT ![t].span.depth = @ - 1]
        /\ UNCHANGED inflight
        /\ UNCHANGED <<symbolic_vars, display_vars>>

\* thread t runs the rest of end_data_item_changes: "if data_item_change_count
\* == 0:" clear the caches and notify the listeners with the set it took
ThreadDeliverAct(t) ==
    LET th == threads[t]
        e  == th.target
        s1 == Deliver([Pack EXCEPT !.recorded[e] = th.span.due], e, th.span.changes)
    IN  /\ th.op = "deliver"
        /\ Install("thread_deliver", e, [s1 EXCEPT !.recorded[e] = recorded[e]],
                   [count |-> th.span.count, changes |-> th.span.changes,
                    due |-> th.span.due])
        /\ threads' =
             IF th.span.depth = 0
             THEN [threads EXCEPT ![t] = [IdleThread EXCEPT !.refs = th.refs]]
             ELSE [threads EXCEPT ![t].op = "span",
                                  ![t].span = [NoSpan EXCEPT !.depth = th.span.depth]]
        /\ UNCHANGED inflight
        /\ UNCHANGED <<symbolic_vars, display_vars>>

\* ----------------------------------------------------------------------
\* Calls on one GraphicSelection, with indexes of 0..MaxIndex.
SelectionStep(sel) ==
    /\ sel.indexes \cup sel.anchor_index \subseteq 0..MaxIndex
    /\ graphic_selection' = sel
    /\ UNCHANGED display_item
    /\ UNCHANGED <<data_item_vars, symbolic_vars>>

SelectionClearAct == SelectionStep(SelectionClear(graphic_selection))

SelectionAddAct ==
    \E index \in 0..MaxIndex : SelectionStep(SelectionAdd(graphic_selection, index))

\* remove of an index that is not selected raises and changes nothing
SelectionRemoveAct ==
    \E index \in graphic_selection.indexes :
        SelectionStep(SelectionRemove(graphic_selection, index))

SelectionSetAct ==
    \E index \in 0..MaxIndex : SelectionStep(SelectionSet(graphic_selection, index))

SelectionToggleAct ==
    \E index \in 0..MaxIndex :
        SelectionStep(SelectionToggle(graphic_selection, index))

InsertIndexAct ==
    \E new_index \in 0..MaxIndex :
        SelectionStep(InsertIndex(graphic_selection, new_index))

RemoveIndexAct ==
    \E remove_index \in 0..MaxIndex :
        SelectionStep(RemoveIndex(graphic_selection, remove_index))

\* ----------------------------------------------------------------------
\* Calls on one DisplayItem: at most MaxMutations of them, the display
\* ref-count within 0..MaxRefCount, a data item a member at most once.
DisplayStep(d) ==
    /\ display_item.calls < MaxMutations
    /\ d.display_ref_count \in 0..MaxRefCount
    /\ display_item' = d
    /\ UNCHANGED graphic_selection
    /\ UNCHANGED <<data_item_vars, symbolic_vars>>

IncrementDisplayRefCountAct == DisplayStep(IncrementDisplayRefCount(display_item, 1))

DecrementDisplayRefCountAct == DisplayStep(DecrementDisplayRefCount(display_item, 1))

InsertDataItemAct ==
    \E data_item \in Items \ Members(display_item) :
        \E before_index \in 0..Len(display_item.data_items) :
            DisplayStep(InsertDataItem(display_item, before_index, data_item))

RemoveDataItemAct ==
    \E data_item \in Members(display_item) :
        DisplayStep(RemoveDataItem(display_item, data_item))

\* ----------------------------------------------------------------------
\* Calls that take locks, run by threads one lock at a time.
\* the lock of the step is held by a thread other than t
HeldByOther(t, step) ==
    \E u \in Threads \ {t} :
        \E i \in DOMAIN threads[u].locks :
            threads[u].locks[i] = <<step.item, step.lock>>

\* thread t enters a call on item e: what the call does to the items is
\* installed, and what it does to the locks is left for the thread to do
LockCallAct(t, e, label, s2, plan) ==
    /\ threads[t].op = "idle"
    /\ Install(label, e, s2, None)
    /\ threads' = [threads EXCEPT ![t].op = "locks", ![t].target = e,
                                  ![t].plan = plan]
    /\ UNCHANGED inflight
    /\ UNCHANGED <<symbolic_vars, display_vars>>

\* the calls of the threads
ShapeCallAct(t, e) ==
    LockCallAct(t, e, "locks_data_shape_and_dtype", Pack, ShapeLocks(Pack, e))

ExternalCallAct(t, e, content) ==
    LockCallAct(t, e, "locks_set_external_master_data",
                SetExternalMasterData(Pack, e, content),
                ExternalLocks(Pack, e, content))

RefCallAct(t, e, op) ==
    /\ op = "dec" => data_ref_count[e] > 0
    /\ LockCallAct(t, e, "locks_data_ref_count",
                   IF op = "inc" THEN IncrementDataRefCount(Pack, e)
                   ELSE DecrementDataRefCount(Pack, e),
                   RefLocks(Pack, op, e))

GetDataCallAct(t, e) ==
    LockCallAct(t, e, "locks_get_data", GetData(Pack, e).s, GetDataLocks(Pack, e))

\* thread t takes or gives back the next lock of its call; an RLock that
\* another thread holds makes it wait
LockStepAct(t) ==
    LET th == threads[t]
        step == Head(th.plan)
        rest == Tail(th.plan)
        locks == IF step.do = "acquire"
                 THEN Append(th.locks, <<step.item, step.lock>>)
                 ELSE SubSeq(th.locks, 1, Len(th.locks) - 1)
    IN  /\ th.op = "locks"
        /\ step.do = "acquire" => ~HeldByOther(t, step)
        /\ threads' = IF rest = <<>>
                      THEN [threads EXCEPT ![t] = [IdleThread EXCEPT !.refs = th.refs]]
                      ELSE [threads EXCEPT ![t].plan = rest, ![t].locks = locks]
        /\ UNCHANGED <<master_data, has_master_data, data_source, operations,
                       cached_data, cached_data_dirty, data_range, data_range_dirty,
                       data_ref_count, data_item_change_count, data_item_changes,
                       listeners, datastore, transaction_count, stored,
                       master_data_shape, intrinsic_spatial_calibrations, recorded,
                       events, last, mutations, run, inflight>>
        /\ UNCHANGED <<symbolic_vars, display_vars>>

\* ----------------------------------------------------------------------
\* __get_data of item e run by thread t, one section at a time.
\* t tests the cache; a clean cache is returned at once
GetDataTestAct(t, e) ==
    /\ inflight[t].pc = "idle"
    /\ IF MustCompute(Pack, e)
       THEN /\ Install("get_data_test", e, Pack, None)
            /\ inflight' = [inflight EXCEPT ![t] =
                                [pc |-> "compute", item |-> e, data |-> None]]
       ELSE /\ Install("data_ref.data", e, Pack, cached_data[e])
            /\ UNCHANGED inflight
    /\ UNCHANGED threads
    /\ UNCHANGED <<symbolic_vars, display_vars>>

\* t derives the array
GetDataDeriveAct(t) ==
    /\ inflight[t].pc = "compute"
    /\ LET e == inflight[t].item
           d == DeriveData(Pack, e)
       IN  /\ Install("get_data_derive", e, d.s, None)
           /\ inflight' = [inflight EXCEPT ![t].pc = "publish", ![t].data = d.v]
    /\ UNCHANGED threads
    /\ UNCHANGED <<symbolic_vars, display_vars>>

\* t stores the array it derived and returns self.__cached_data
GetDataPublishAct(t) ==
    /\ inflight[t].pc = "publish"
    /\ LET e == inflight[t].item
           s2 == PublishData(Pack, e, inflight[t].data)
       IN  Install("get_data_publish", e, s2, s2.cached_data[e])
    /\ inflight' = [inflight EXCEPT ![t] = IdleFlight]
    /\ UNCHANGED threads
    /\ UNCHANGED <<symbolic_vars, display_vars>>

\* ----------------------------------------------------------------------
\* Calls on one Computation.
\* the "node" dicts of stored Computations: of "2" and of "a + 2"
StoredNodes ==
    {Write(ConstantDataNode(<<0, 1>>, PyInt(2))).d,
     Write(ParseExpression("a + 2", 0)).d}

\* the resolution contexts passed to parse_expression and bind: one knows
\* every object, the other only the data item "A"
Contexts == {Specifiers, {"A"}}

InstallComputation(op, r, parsed, bound, context) ==
    /\ Len(r.made) <= MaxBoundItems
    /\ computation' = r.c
    /\ bound_items_made' = r.made
    /\ called' = [op |-> op, raised |-> r.raised, parsed |-> parsed, fired |-> 0,
                  item |-> NoBound,
                  trees |-> IF op = "parse_expression" THEN called.trees + 1
                            ELSE called.trees,
                  bound |-> bound, context |-> context]
    /\ UNCHANGED roundtrip
    /\ UNCHANGED <<data_item_vars, display_vars>>

\* The Computation is bound after a call r that made a bind when that bind
\* completed; when it raised, the Computation stays bound only if the call left
\* the Bound Items of the completed binding in place.
StillBound(r, bind_made) ==
    IF bind_made /\ ~r.raised THEN TRUE
    ELSE called.bound /\ r.c.bound_items = computation.bound_items

ParseExpressionAct(context, expression) ==
    LET tree == called.trees + 1
        parsed == ParseExpression(expression, tree) # NoNode
        r == ComputationParseExpression(computation, bound_items_made, context,
                                        expression, tree)
    IN  /\ called.trees < MaxTrees
        /\ InstallComputation("parse_expression", r, parsed,
                              StillBound(r, parsed), context)
        /\ host' = host \cup HostActions(expression)

BindAct(context) ==
    LET r == ComputationBind(computation, bound_items_made, context)
    IN  /\ InstallComputation("bind", r, FALSE, StillBound(r, TRUE), context)
        /\ UNCHANGED host

UnbindAct ==
    /\ InstallComputation("unbind", ComputationUnbind(computation, bound_items_made),
                          FALSE, FALSE, {})
    /\ UNCHANGED host

\* Computation.read_from_dict with the "node" property of a stored Computation
ReadFromDictAct(d) ==
    LET r == Factory(d)
    IN  /\ InstallComputation("read_from_dict",
                               IF r.ok
                               THEN Returned([computation EXCEPT !.node = d,
                                                                !.data_node = r.node],
                                             bound_items_made)
                               ELSE RaisedIn([computation EXCEPT !.node = d],
                                             bound_items_made),
                               FALSE, called.bound, {})
        /\ UNCHANGED host

\* the changed_event of a Bound Item that is not closed fires
ChangedEventAct(item) ==
    /\ item \in DOMAIN bound_items_made
    /\ ~bound_items_made[item].closed
    /\ called' = [called EXCEPT !.op = "changed_event", !.raised = FALSE,
                                !.parsed = FALSE, !.item = item,
                                !.fired = NeedsUpdateFired(bound_items_made, item)]
    /\ UNCHANGED <<roundtrip, computation, bound_items_made, host>>
    /\ UNCHANGED <<data_item_vars, display_vars>>

InitComputation == Init /\ \A e \in Items : ~datastore[e] /\ transaction_count[e] = 0

NextComputation ==
    \/ \E context \in Contexts, expression \in Expressions :
          ParseExpressionAct(context, expression)
    \/ \E context \in Contexts : BindAct(context)
    \/ UnbindAct
    \/ \E d \in StoredNodes : ReadFromDictAct(d)
    \/ \E item \in 1..MaxBoundItems : ChangedEventAct(item)

SpecComputation == InitComputation /\ [][NextComputation]_vars

\* ----------------------------------------------------------------------
\* Round trip of node trees through write and read. The trees are built by
\* direct construction: a leaf, or one operation node over one or two leaves.
RoundTripLeaves(uuid) ==
    {ConstantDataNode(uuid, PyInt(3)), ConstantDataNode(uuid, PyFloat(3)),
     ConstantDataNode(uuid, PyComplex(1, 2)), DataItemDataNode(uuid, "A"),
     PropertyDataNode(uuid, "R", "x")}

RoundTripTrees ==
    RoundTripLeaves(<<1, 0>>)
    \cup {OperationDataNode("unary", <<1, 0>>, <<l>>, f[1], f[2]) :
            l \in RoundTripLeaves(<<1, 1>>),
            f \in {<<"neg", {}>>, <<"slice", {<<"key", "0:1">>}>>}}
    \cup {OperationDataNode("scalar", <<1, 0>>, <<l>>, "amin", {}) :
            l \in RoundTripLeaves(<<1, 1>>)}
    \cup {OperationDataNode("binary", <<1, 0>>, <<l1, l2>>, "add", {}) :
            l1 \in RoundTripLeaves(<<1, 1>>), l2 \in RoundTripLeaves(<<1, 2>>)}
    \cup {OperationDataNode("function", <<1, 0>>, <<l1, l2>>, "crop", {}) :
            l1 \in RoundTripLeaves(<<1, 1>>), l2 \in RoundTripLeaves(<<1, 2>>)}
    \cup {OperationDataNode("function", <<1, 0>>, <<l>>, "transpose_flip",
                            {<<"transpose", "True">>, <<"flip_v", "False">>,
                             <<"flip_h", "False">>}) :
            l \in RoundTripLeaves(<<1, 1>>)}

InitRoundTrip ==
    /\ Init
    /\ \A e \in Items : ~datastore[e] /\ transaction_count[e] = 0

BuildAct ==
    /\ roundtrip.stage = "none"
    /\ \E tree \in RoundTripTrees :
          roundtrip' = [NoRoundTrip EXCEPT !.stage = "built", !.tree = tree]
    /\ UNCHANGED <<computation, bound_items_made, host, called>>
    /\ UNCHANGED <<data_item_vars, display_vars>>

\* d = tree.write()
WriteAct ==
    /\ roundtrip.stage = "built"
    /\ roundtrip' = [roundtrip EXCEPT !.stage = "written",
                                      !.written = Write(roundtrip.tree)]
    /\ UNCHANGED <<computation, bound_items_made, host, called>>
    /\ UNCHANGED <<data_item_vars, display_vars>>

\* node = DataNode.factory(d)
ReadAct ==
    /\ roundtrip.stage = "written"
    /\ roundtrip.written.ok
    /\ roundtrip' = [roundtrip EXCEPT !.stage = "read",
                                      !.reread = Factory(roundtrip.written.d)]
    /\ UNCHANGED <<computation, bound_items_made, host, called>>
    /\ UNCHANGED <<data_item_vars, display_vars>>

\* node.write()
WriteAgainAct ==
    /\ roundtrip.stage = "read"
    /\ roundtrip.reread.ok
    /\ roundtrip' = [roundtrip EXCEPT !.stage = "rewritten",
                                      !.rewritten = Write(roundtrip.reread.node)]
    /\ UNCHANGED <<computation, bound_items_made, host, called>>
    /\ UNCHANGED <<data_item_vars, display_vars>>

NextRoundTrip == BuildAct \/ WriteAct \/ ReadAct \/ WriteAgainAct

SpecRoundTrip == InitRoundTrip /\ [][NextRoundTrip]_vars

\* ----------------------------------------------------------------------
\* Threads: two threads enter and exit data_refs of the storage-backed "A"
\* and of "B" derived from it; raw data and the source are set up before the
\* first thread enters a data_ref.
InitThreads ==
    /\ Init
    /\ \A e \in Items \ {"A"} : transaction_count[e] = 0 /\ ~datastore[e]

NextThreads ==
    \/ Quiet /\ SetMasterDataAct("A", {Raw(1), None})
    \/ Quiet /\ ConnectDataSourceAct("B", {"A"})
    \/ Quiet /\ DisconnectDataSourceAct("B")
    \/ \E t \in Threads, e \in {"A", "B"} : ThreadCallAct(t, e, "inc")
    \/ \E t \in Threads, e \in {"A", "B"} : ThreadCallAct(t, e, "dec")
    \/ \E t \in Threads : ThreadEnterAct(t)

SpecThreads == InitThreads /\ [][NextThreads]_vars

\* ----------------------------------------------------------------------
\* Derived data: a source "A" and an item "B" that may draw from it, their
\* operation chains, and reads through the data property.
InitData ==
    /\ Init
    /\ transaction_count = [e \in Items |-> 0]
    /\ \A e \in Items \ {"A"} : ~datastore[e]

NextData ==
    \E e \in {"A", "B"} :
        \/ SetMasterDataAct(e, RawData \cup {None})
        \/ SetExternalMasterDataAct(e, RawData)
        \/ ConnectDataSourceAct(e, {"A", "B"})
        \/ DisconnectDataSourceAct(e)
        \/ AddOperationAct(e)
        \/ RemoveOperationAct(e)
        \/ OperationChangedAct(e)
        \/ GetDataImmediateAct(e)

SpecData == InitData /\ [][NextData]_vars

\* ----------------------------------------------------------------------
\* Residency: acquire and release along the chain "C" -> "B" -> "A" (or "C"
\* and "B" both drawing from "A"), where "A" may have a datastore and may be
\* inside a transaction and is the one item given raw data, while sources
\* are attached and detached.
InitResidency ==
    /\ Init
    /\ \A e \in Items \ {"A"} : transaction_count[e] = 0 /\ ~datastore[e]

NextResidency ==
    \/ SetMasterDataAct("A", {Raw(1), None})
    \/ ConnectDataSourceAct("B", {"A"})
    \/ ConnectDataSourceAct("C", {"A", "B"})
    \/ \E e \in {"B", "C"} : DisconnectDataSourceAct(e)
    \/ \E e \in Items : IncrementDataRefCountAct(e)
    \/ \E e \in Items : DecrementDataRefCountAct(e)

SpecResidency == InitResidency /\ [][NextResidency]_vars

\* ----------------------------------------------------------------------
\* Sources of a held item: "B" is acquired and released while "A" or "C"
\* (itself drawing from "A") is attached to it, detached from it or replaced,
\* operations are added to it and it is torn down; "A" is given raw data.
InitSources ==
    /\ Init
    /\ transaction_count = [e \in Items |-> 0]
    /\ \A e \in Items \ {"A"} : ~datastore[e]

NextSources ==
    \/ SetMasterDataAct("A", {Raw(1)})
    \/ ConnectDataSourceAct("C", {"A"})
    \/ ConnectDataSourceAct("B", {"A", "C"})
    \/ DisconnectDataSourceAct("B")
    \/ AddOperationAct("B")
    \/ AboutToDeleteAct("B")
    \/ IncrementDataRefCountAct("B")
    \/ DecrementDataRefCountAct("B")

SpecSources == InitSources /\ [][NextSources]_vars

\* ----------------------------------------------------------------------
\* Data range: the raw data of "A", which may have a datastore, is replaced
\* and cleared, and its data and its data range are read.
InitRange ==
    /\ Init
    /\ transaction_count = [e \in Items |-> 0]
    /\ \A e \in Items \ {"A"} : ~datastore[e]

NextRange ==
    \/ SetMasterDataAct("A", RawData \cup {None})
    \/ GetDataRangeAct("A")
    \/ GetDataImmediateAct("A")

SpecRange == InitRange /\ [][NextRange]_vars

\* ----------------------------------------------------------------------
\* Shapes and calibrations: "B" draws from "A" through its operations; "A"
\* may have a datastore, is given arrays of one and of two dimensions, and
\* both are asked for their data and for their shape.
InitShape ==
    /\ Init
    /\ transaction_count = [e \in Items |-> 0]
    /\ \A e \in Items \ {"A"} : ~datastore[e]

NextShape ==
    \/ SetMasterDataAct("A", RawData \cup {None})
    \/ ConnectDataSourceAct("B", {"A"})
    \/ DisconnectDataSourceAct("B")
    \/ AddOperationAct("B")
    \/ RemoveOperationAct("B")
    \/ OperationChangedAct("B")
    \/ \E e \in {"A", "B"} :
        \/ SetSpatialCalibrationAct(e, {IdentityCalibration})
        \/ DataShapeAndDtypeAct(e)
        \/ GetDataImmediateAct(e)

SpecShape == InitShape /\ [][NextShape]_vars

\* ----------------------------------------------------------------------
\* Change batching: nested begin/end on a source "A" and on "B" listening to
\* it, with changes of the kinds DATA, METADATA and SOURCE notified on both.
InitChanges ==
    /\ Init
    /\ transaction_count = [e \in Items |-> 0]
    /\ datastore = [e \in Items |-> FALSE]

NextChanges ==
    \/ \E e \in {"A", "B"} :
        \/ BeginDataItemChangesAct(e)
        \/ EndDataItemChangesAct(e)
        \/ NotifyDataItemContentChangedAct(e, {DATA, METADATA, SOURCE})
    \/ NotifyObservedAct("A", {DATA, METADATA}, {DATA, METADATA})
    \/ SetMasterDataAct("A", {Raw(1), None})
    \/ ConnectDataSourceAct("B", {"A"})
    \/ DisconnectDataSourceAct("B")

SpecChanges == InitChanges /\ [][NextChanges]_vars

\* ----------------------------------------------------------------------
\* Threads in change spans: two threads open spans on "A", record kinds of
\* change and close the spans, in every order; "B" may listen to "A".
InitSpans ==
    /\ Init
    /\ transaction_count = [e \in Items |-> 0]
    /\ datastore = [e \in Items |-> FALSE]

NextSpans ==
    \/ \E t \in Threads :
        \/ ThreadBeginAct(t, "A")
        \/ ThreadRecordAct(t, {DATA, METADATA, SOURCE})
        \/ ThreadEndAct(t)
        \/ ThreadDeliverAct(t)
    \/ ConnectDataSourceAct("B", {"A"})

SpecSpans == InitSpans /\ [][NextSpans]_vars

\* ----------------------------------------------------------------------
\* A chain of sources: "C" derives from "A" and "B" from "C"; the raw data of
\* "A" is replaced while "C" and "B" open and close change spans and are read.
InitChain ==
    /\ Init
    /\ transaction_count = [e \in Items |-> 0]
    /\ datastore = [e \in Items |-> FALSE]

NextChain ==
    \/ SetMasterDataAct("A", {Raw(1), Raw(2)})
    \/ ConnectDataSourceAct("C", {"A"})
    \/ ConnectDataSourceAct("B", {"C"})
    \/ DisconnectDataSourceAct("B")
    \/ \E e \in {"B", "C"} :
        \/ BeginDataItemChangesAct(e)
        \/ EndDataItemChangesAct(e)
        \/ GetDataImmediateAct(e)

SpecChain == InitChain /\ [][NextChain]_vars

\* ----------------------------------------------------------------------
\* Locks along a chain: "B" derives from "A"; two threads call into both.
InitLocks ==
    /\ Init
    /\ transaction_count = [e \in Items |-> 0]
    /\ datastore = [e \in Items |-> FALSE]

NextLocks ==
    \/ (\A t \in Threads : threads[t].op = "idle") /\ ConnectDataSourceAct("B", {"A"})
    \/ \E t \in Threads :
        \/ ExternalCallAct(t, "A", Raw(2))
        \/ ShapeCallAct(t, "B")
        \/ GetDataCallAct(t, "B")
        \/ RefCallAct(t, "B", "inc")
        \/ RefCallAct(t, "B", "dec")
        \/ LockStepAct(t)

SpecLocks == InitLocks /\ [][NextLocks]_vars

\* ----------------------------------------------------------------------
\* One GraphicSelection under every sequence of its operations.
InitDisplay ==
    /\ Init
    /\ transaction_count = [e \in Items |-> 0]
    /\ datastore = [e \in Items |-> FALSE]

NextSelection ==
    \/ SelectionClearAct
    \/ SelectionAddAct
    \/ SelectionRemoveAct
    \/ SelectionSetAct
    \/ SelectionToggleAct
    \/ InsertIndexAct
    \/ RemoveIndexAct

SpecSelection == InitDisplay /\ [][NextSelection]_vars

\* One DisplayItem that is shown and hidden while data items come and go.
NextDisplay ==
    \/ IncrementDisplayRefCountAct
    \/ DecrementDisplayRefCountAct
    \/ InsertDataItemAct
    \/ RemoveDataItemAct

SpecDisplay == InitDisplay /\ [][NextDisplay]_vars

\* ----------------------------------------------------------------------
\* Calibrations against dimensionality: the raw data of "A" is replaced by
\* arrays of 1 to MaxDimension + 1 dimensions and its calibrations are set.
InitCalibrations ==
    /\ Init
    /\ transaction_count = [e \in Items |-> 0]
    /\ datastore = [e \in Items |-> FALSE]

NextCalibrations ==
    \/ SetMasterDataAct("A", {Raw(r) : r \in 1..(MaxDimension + 1)})
    \/ SetSpatialCalibrationAct("A", Calibrations)

SpecCalibrations == InitCalibrations /\ [][NextCalibrations]_vars

\* ----------------------------------------------------------------------
\* Background reads against foreground changes: two threads read the data of
\* "A" section by section while its raw data and its operations are changed.
InitRace ==
    /\ Init
    /\ transaction_count = [e \in Items |-> 0]
    /\ datastore = [e \in Items |-> FALSE]

NextRace ==
    \/ \E t \in Threads :
        \/ GetDataTestAct(t, "A")
        \/ GetDataDeriveAct(t)
        \/ GetDataPublishAct(t)
    \/ SetMasterDataAct("A", RawData)
    \/ AddOperationAct("A")
    \/ OperationChangedAct("A")

SpecRace == InitRace /\ [][NextRace]_vars

\* ======================================================================
\* Properties of the derived data (SpecData)

ProcessEvents(e) ==
    LET IsProcess(ev) == ev.type = "process" /\ ev.item = e
    IN  SelectSeq(events, IsProcess)

NoProcessEvent == \A i \in DOMAIN events : events[i].type # "process"

AllEnabled(e) == \A i \in DOMAIN operations[e] : operations[e][i].enabled
AllDisabled(e) == \A i \in DOMAIN operations[e] : ~operations[e][i].enabled

\* C1: no data item ever has master data and a data source at the same time;
\* an operation that would make both true fails its assertion instead.
C1_NeverBoth ==
    \A e \in Items : ~(has_master_data[e] /\ data_source[e] # NoItem)

\* C2: when the data of an item with two or more (enabled) operations is
\* computed, process_data is called for the operations in list order: the
\* first operation receives the root array, which none of the item's
\* operations was applied to, and each later one the output of the one before.
C2_DefinitionOrder ==
    LET e == last.item
        P == ProcessEvents(e)
    IN  (last.op = "data" /\ Len(operations[e]) >= 2 /\ AllEnabled(e) /\ P # <<>>)
        => /\ Len(P) = Len(operations[e])
           /\ \A i \in DOMAIN P :
                /\ P[i].op = operations[e][i].id
                /\ i > 1 => P[i].input = P[i - 1].output
           /\ \A j \in DOMAIN operations[e], k \in DOMAIN P[1].input.applied :
                P[1].input.applied[k] # operations[e][j].id

\* C3: computing data never calls process_data of a disabled operation, and
\* an item whose operations are all disabled returns the data of its source.
C3_SkipsDisabled ==
    LET e == last.item
    IN  last.op = "data"
        => /\ \A i \in DOMAIN events :
                events[i].type = "process" => events[i].enabled
           /\ (data_source[e] # NoItem /\ ~has_master_data[e]
               /\ operations[e] # <<>> /\ AllDisabled(e))
              => last.result = GetDataImmediate(Pack, data_source[e]).v

C5_MutationMarksDirty ==
    (/\ last.op \in {"set_master_data", "connect_data_source",
                     "disconnect_data_source", "add_operation", "remove_operation"}
     /\ ~last.failed
     /\ data_item_change_count[last.item] = 0)
    => cached_data_dirty[last.item]

\* ======================================================================
\* Properties of the change accumulator (SpecChanges)

IsNotify(ev) == ev.type = "notify"
IsEnd(ev) == ev.type = "end"

\* C6: a notification is delivered only by the end() that returns the depth to
\* 0 (never while the depth is greater than 0), that end() delivers exactly
\* one, and its change set is the union of the kinds recorded during the span.
C6_OneNotificationPerSpan ==
    \A i \in DOMAIN events :
        /\ IsNotify(events[i])
           => /\ events[i].depth = 0
              /\ events[i].changes = events[i].recorded
              /\ i > 1
              /\ IsEnd(events[i - 1])
              /\ events[i - 1].item = events[i].item
              /\ events[i - 1].depth = 0
        /\ (IsEnd(events[i]) /\ events[i].depth = 0)
           => /\ i < Len(events)
              /\ IsNotify(events[i + 1])
              /\ events[i + 1].item = events[i].item

\* C6 witness: the outermost end() of a nested span delivered one notification
\* carrying two kinds of change that were recorded separately inside the span.
C6_Witness ==
    /\ last.op = "end_data_item_changes"
    /\ Count(events, "notify", Items) = 1
    /\ \E i \in DOMAIN events :
          /\ IsNotify(events[i])
          /\ events[i].item = last.item
          /\ Cardinality(events[i].changes) >= 2

\* C7: when a notification whose change set contains DATA or SOURCE reaches
\* the observers, the cached data is already marked dirty and the data range
\* already marked stale.
C7_DirtyBeforeObservers ==
    \A i \in DOMAIN events :
        (IsNotify(events[i])
         /\ (DATA \in events[i].changes \/ SOURCE \in events[i].changes))
        => (events[i].dirty /\ events[i].range_dirty)

\* C7 witness: a DATA notification of an item that holds computed data.
C7_Witness ==
    \E i \in DOMAIN events :
        /\ IsNotify(events[i])
        /\ DATA \in events[i].changes
        /\ events[i].dirty
        /\ cached_data[events[i].item] # None

\* ======================================================================
\* Properties of the residency tracker (SpecResidency)

\* C8 as claimed: every acquire on an item with a data source raises the
\* source's ref-count by exactly one.
C8_EveryAcquireRaisesSource ==
    [][ (last'.op = "increment_data_ref_count" /\ data_source[last'.item] # NoItem)
        => data_ref_count'[data_source[last'.item]]
             = data_ref_count[data_source[last'.item]] + 1 ]_vars

\* C8 as amended: an acquire on an item with a data source raises the source's
\* ref-count by one when the item's own ref-count was 0 before the call, and
\* leaves it unchanged otherwise.
C8_FirstAcquireRaisesSource ==
    [][ (last'.op = "increment_data_ref_count" /\ data_source[last'.item] # NoItem)
        => data_ref_count'[data_source[last'.item]]
             = data_ref_count[data_source[last'.item]]
               + (IF data_ref_count[last'.item] = 0 THEN 1 ELSE 0) ]_vars

\* C8 witness: a second acquire on a derived item, whose source is still held once.
C8_Witness ==
    /\ last.op = "increment_data_ref_count"
    /\ data_source[last.item] # NoItem
    /\ data_ref_count[last.item] = 2
    /\ data_ref_count[data_source[last.item]] = 1

RunComplete ==
    /\ run.item # NoItem
    /\ run.source # NoItem
    /\ run.acquired >= 1
    /\ run.released = run.acquired

RunRestored ==
    /\ data_ref_count[run.item] = run.start_item
    /\ data_ref_count[run.source] = run.start_source

\* C9 as claimed: N acquires then N releases on a derived item restore both
\* ref-counts and attempt the unload of the source's raw data (held by the
\* source or further up its chain) exactly once.
C9_RestoredAndOneUnload ==
    RunComplete => (RunRestored /\ run.unloads = 1)

\* C9 as amended: N acquires then N releases restore both ref-counts; the
\* unload is attempted at most once; when the item's own ref-count and that of
\* every item upstream of it start at 0, it is attempted exactly once, during
\* the final release.
C9_RestoredAndAtMostOneUnload ==
    LET fresh == /\ run.item # NoItem /\ run.source # NoItem
                 /\ run.start_item = 0 /\ run.upstream_idle
    IN  /\ RunComplete => (RunRestored /\ run.unloads <= 1)
        /\ (RunComplete /\ fresh) => run.unloads = 1
        /\ (fresh /\ run.released < run.acquired) => run.unloads = 0

\* C9 witness: two acquires and two releases on a fresh derived item, with the
\* one unload attempt made by the last release.
C9_Witness ==
    /\ RunComplete
    /\ run.acquired = 2
    /\ run.start_item = 0
    /\ run.upstream_idle
    /\ run.unloads = 1
    /\ \E i \in DOMAIN events : events[i].type = "unload"

\* C10: an item's raw array leaves memory only by an unload made when its
\* ref-count has just reached 0 and it has a datastore (or by replacing the
\* raw data with none); otherwise the array stays resident.
C10_UnloadOnlyAtZeroWithDatastore ==
    [][ \A e \in Items :
          (master_data[e] # None /\ master_data'[e] = None)
          => \/ /\ datastore[e]
                /\ \E i \in DOMAIN events' :
                      /\ events'[i].type = "unload"
                      /\ events'[i].item = e
                      /\ events'[i].dropped
                      /\ events'[i].ref_count = 0
             \/ /\ last'.op = "set_master_data"
                /\ last'.item = e
                /\ last'.result = None ]_vars

\* C10 witness: a release brought a resident item's ref-count to 0 and its raw
\* array was dropped.
C10_Witness ==
    /\ last.op = "decrement_data_ref_count"
    /\ data_ref_count[last.item] = 0
    /\ has_master_data[last.item]
    /\ master_data[last.item] = None
    /\ \E i \in DOMAIN events :
          /\ events[i].type = "unload"
          /\ events[i].item = last.item
          /\ events[i].dropped
          /\ events[i].resident

\* ======================================================================
\* Properties of threads sharing data_refs (SpecThreads)

\* C11: while a thread is between the return of its acquire and the start of
\* its matching release on an item that has raw data and a datastore, the raw
\* array of that item is in memory, whatever other threads acquire or release.
C11_ResidentWhileHeld ==
    \A t \in Threads, e \in Items :
        (threads[t].refs[e] > 0 /\ has_master_data[e] /\ datastore[e])
        => master_data[e] # None

\* C11 witness: a release of the storage-backed item by one holder has just
\* completed while another thread still holds it, and the array is resident.
C11_Witness ==
    /\ last.op = "thread_decrement"
    /\ datastore[last.item] /\ has_master_data[last.item]
    /\ transaction_count[last.item] = 0
    /\ data_ref_count[last.item] = 1
    /\ \E t \in Threads : threads[t].refs[last.item] = 1
    /\ \E t \in Threads : threads[t].refs[last.item] = 0 /\ threads[t].op = "idle"
    /\ master_data[last.item] # None

\* C17: a thread that is about to enter a method of an item holds no lock of
\* any other item (here the ref-count mutex taken along the source chain).
C17_NoCallUnderLock ==
    \A t \in Threads :
        threads[t].next # NoItem
        => \A i \in DOMAIN threads[t].held : threads[t].held[i] = threads[t].next

\* ======================================================================
\* Properties of the computation graph (SpecRoundTrip, SpecComputation)

RECURSIVE SameTree(_, _)
\* the same node types, uuids, function ids, argument maps, object specifiers,
\* properties, constant values and inputs in the same order
SameTree(m, n) ==
    /\ m.type = n.type
    /\ m.uuid = n.uuid
    /\ m.function_id = n.function_id
    /\ m.args = n.args
    /\ m.object_specifier = n.object_specifier
    /\ m.property = n.property
    /\ m.scalar = n.scalar
    /\ Len(m.inputs) = Len(n.inputs)
    /\ \A i \in DOMAIN m.inputs : SameTree(m.inputs[i], n.inputs[i])

\* C12: for a tree built by direct construction, write succeeds, reading what
\* was written gives the same tree, and writing that tree again gives the
\* same dict as the first write.
C12_RoundTrip ==
    /\ roundtrip.stage \in {"written", "read", "rewritten"} => roundtrip.written.ok
    /\ roundtrip.stage \in {"read", "rewritten"}
       => (roundtrip.reread.ok /\ SameTree(roundtrip.tree, roundtrip.reread.node))
    /\ roundtrip.stage = "rewritten"
       => (roundtrip.rewritten.ok /\ roundtrip.rewritten.d = roundtrip.written.d)

\* the Bound Items that the Computation holds in __bound_items
HeldItems == {p[2] : p \in computation.bound_items}

\* C13: while the Computation is bound, a change event of one of its Bound
\* Items fires needs_update exactly once, also when the variable of that
\* Bound Item occurs twice in the expression.
C13_NeedsUpdateOnce ==
    (called.op = "changed_event" /\ called.bound /\ called.item \in HeldItems)
    => called.fired = 1

\* C13 witness: the Computation of "a + a" is bound and the change event of
\* its Bound Item has fired needs_update once.
C13_Witness ==
    /\ called.op = "changed_event"
    /\ called.bound
    /\ called.item \in HeldItems
    /\ called.fired = 1
    /\ Len(computation.data_node.inputs) = 2
    /\ computation.data_node.inputs[1].uuid = computation.data_node.inputs[2].uuid

\* the subscriptions of the Bound Items that existed before the call are unchanged
SameSubscriptions ==
    \A k \in DOMAIN bound_items_made : bound_items_made'[k] = bound_items_made[k]

\* C14: a parse_expression whose expression does not parse, or whose bind
\* raises, leaves the Computation as it was: its tree, its node property, its
\* Bound Items, its subscriptions and what evaluate() returns.
C14_FailureLeavesState ==
    [][ (called'.op = "parse_expression" /\ (called'.raised \/ ~called'.parsed))
        => /\ computation' = computation
           /\ SameSubscriptions
           /\ Evaluate(computation') = Evaluate(computation) ]_vars

\* C15: a bind (explicit, or the one parse_expression makes) for which the
\* context resolves no Bound Item for some leaf raises, and after a bind that
\* completed every leaf of the tree holds a Bound Item.
C15_BindNeverBindsToNothing ==
    LET leaves == Leaves(computation.data_node)
        bind_made == \/ called.op = "bind"
                     \/ called.op = "parse_expression" /\ called.parsed
    IN  /\ (bind_made /\ computation.data_node # NoNode
            /\ \E i \in DOMAIN leaves : leaves[i].object_specifier \notin called.context)
           => called.raised
        /\ (bind_made /\ ~called.raised)
           => \A i \in DOMAIN leaves : leaves[i].bound_item # NoBound

\* C15 witness: a bind on an unbound Computation raised because the context
\* did not know the object of a leaf.
C15_Witness ==
    LET leaves == Leaves(computation.data_node)
    IN  /\ called.op = "bind"
        /\ called.raised
        /\ computation.bound_items = {}
        /\ \E i \in DOMAIN leaves :
              /\ leaves[i].object_specifier \notin called.context
              /\ leaves[i].bound_item = NoBound

\* no Bound Item carries more than one subscription of the Computation
AtMostOneSubscription ==
    \A k \in DOMAIN bound_items_made : bound_items_made[k].listeners <= 1

\* C20 as claimed: a bind while an earlier bind has not been unbound raises
\* and adds no subscription, and no Bound Item ever carries two subscriptions.
C20_RebindFails ==
    /\ []AtMostOneSubscription
    /\ [][ (called'.op = "bind" /\ called.bound)
           => (called'.raised /\ bound_items_made' = bound_items_made) ]_vars

\* C20 as amended: a bind while the Computation still holds Bound Items raises
\* and changes nothing, and no Bound Item ever carries two subscriptions; the
\* binding of a tree without DataRef or PropertyRef leaves holds no Bound Item
\* and can be repeated.
C20_RebindWithItemsFails ==
    /\ []AtMostOneSubscription
    /\ [][ (called'.op = "bind" /\ computation.bound_items # {})
           => /\ called'.raised
              /\ computation' = computation
              /\ bound_items_made' = bound_items_made ]_vars

\* C20 witness: a bind on a bound Computation has raised and its Bound Item
\* still carries the one subscription.
C20_Witness ==
    /\ called.op = "bind"
    /\ called.raised
    /\ called.bound
    /\ computation.bound_item_listeners # {}
    /\ \A k \in HeldItems : bound_items_made[k].listeners = 1

\* C16: when a data item notified a change that includes SOURCE, every data
\* item listening to it has the SOURCE change in its own accumulator, or has
\* already delivered it to its observers from that accumulator.
C16_SourceChangeReachesDerived ==
    \A i \in DOMAIN events :
        (events[i].type = "notify" /\ SOURCE \in events[i].changes)
        => \A d \in listeners[events[i].item] :
              \/ SOURCE \in data_item_changes[d]
              \/ \E j \in DOMAIN events :
                    /\ j > i
                    /\ events[j].type = "notify"
                    /\ events[j].item = d
                    /\ SOURCE \in events[j].changes
                    /\ SOURCE \in events[j].recorded

\* C18: after every completed operation the intrinsic spatial calibration
\* list of every data item is as long as the item's spatial shape.
C18_CalibrationsMatchShape ==
    \A e \in Items :
        Len(intrinsic_spatial_calibrations[e]) = SpatialDimensions(Pack, e)

\* the enabled operations between the root of e's chain and e, root first
RECURSIVE EnabledChain(_)
EnabledChain(e) ==
    LET IsEnabled(op) == op.enabled
        own == SelectSeq(operations[e], IsEnabled)
    IN  IF ~has_master_data[e] /\ data_source[e] # NoItem
        THEN EnabledChain(data_source[e]) \o own
        ELSE own

\* the shape and dtype of the root array of e's chain
RECURSIVE RootShape(_)
RootShape(e) ==
    IF has_master_data[e] THEN master_data_shape[e]
    ELSE IF data_source[e] # NoItem THEN RootShape(data_source[e])
         ELSE NoShape

\* the transfer functions of a sequence of operations, applied first to last
RECURSIVE Transferred(_, _)
Transferred(ops, shape) ==
    IF ops = <<>> THEN shape
    ELSE GetProcessedDataShapeAndDtype(
             ops[Len(ops)], Transferred(SubSeq(ops, 1, Len(ops) - 1), shape))

\* C19: a data_shape_and_dtype query calls no process_data and loads no raw
\* data, changes no raw array, cache, dirty flag or ref-count of any item,
\* and returns the root shape and dtype taken through the transfer functions
\* of the enabled operations of the chain, in chain order.
C19_ShapeQueryIsFree ==
    [][ last'.op = "data_shape_and_dtype"
        => /\ \A i \in DOMAIN events' :
                 events'[i].type \notin {"process", "load", "unload"}
           /\ UNCHANGED <<master_data, has_master_data, cached_data,
                          cached_data_dirty, data_range, data_range_dirty,
                          data_ref_count, operations, data_source>>
           /\ last'.result = IF RootShape(last'.item) = NoShape THEN NoShape
                             ELSE Transferred(EnabledChain(last'.item),
                                              RootShape(last'.item)) ]_vars

\* C19 witness: "B" was asked for its shape while the two-dimensional raw
\* array of its source "A" was unloaded and its own cache was filled; its
\* chain has an enabled projection and another operation, and the answer is
\* the one-dimensional shape that passed through the enabled operations.
C19_Witness ==
    /\ last.op = "data_shape_and_dtype"
    /\ last.item = "B"
    /\ data_source["B"] = "A"
    /\ has_master_data["A"] /\ master_data["A"] = None
    /\ master_data_shape["A"].dims = 2
    /\ cached_data["B"] # None
    /\ Len(operations["B"]) = 2
    /\ \E i \in DOMAIN operations["B"] :
          operations["B"][i].enabled /\ operations["B"][i].id = "g"
    /\ last.result.dims = 1
    /\ last.result.applied =
           [i \in DOMAIN EnabledChain("B") |-> EnabledChain("B")[i].id]

\* C21: an unbind of a Computation that holds no Bound Item and no listener
\* (it was never bound, or was unbound before) fails an assertion.
C21_UnbindUnboundAsserts ==
    [][ (called'.op = "unbind" /\ computation.bound_items = {}
         /\ computation.bound_item_listeners = {})
        => called'.raised ]_vars

\* C22: after an unbind that returned, the dicts of the Computation are empty
\* and no DataRef or PropertyRef leaf of the tree still holds a Bound Item, so
\* evaluate() reads no value of a Bound Item that the unbind closed.
C22_UnbindLeavesUnbound ==
    (called.op = "unbind" /\ ~called.raised)
    => /\ computation.bound_items = {}
       /\ computation.bound_item_listeners = {}
       /\ LET leaves == Leaves(computation.data_node)
          IN  \A i \in DOMAIN leaves : leaves[i].bound_item = NoBound

\* the node objects below and including n, as many as there are places in the
\* tree, and their uuids; one node object has one uuid
RECURSIVE Places(_)
Places(n) ==
    IF Len(n.inputs) = 0 THEN 1
    ELSE IF Len(n.inputs) = 1 THEN 1 + Places(n.inputs[1])
    ELSE 1 + Places(n.inputs[1]) + Places(n.inputs[2])

RECURSIVE Uuids(_)
Uuids(n) ==
    {n.uuid} \cup UNION {Uuids(n.inputs[i]) : i \in DOMAIN n.inputs}

\* C23: the graph that parse_expression builds is a tree: no node object
\* stands at two places of it.
C23_NoNodeShared ==
    (called.op = "parse_expression" /\ HasBind(computation.data_node))
    => Places(computation.data_node) = Cardinality(Uuids(computation.data_node))

\* exec left nothing that is a computation graph in result
NoGraph(n) == ~HasBind(n)

\* C27: a parse_expression whose text yields no computation graph (it does
\* not parse, or it leaves a number or a Reference node) returns normally.
C27_NoGraphReturnsNormally ==
    [][ (called'.op = "parse_expression" /\ NoGraph(computation'.data_node))
        => ~called'.raised ]_vars

\* C29: parse_expression does nothing to the host but build nodes.
C29_ParseOnlyBuildsNodes ==
    [][ called'.op = "parse_expression" => host' = host ]_vars

\* the raw array that item e has now: the one in memory, or the one its
\* datastore loads
CurrentRaw(e) == IF master_data[e] # None THEN master_data[e] ELSE stored[e]

\* C24: the data range read from an item with raw data and no operations is
\* the range of the raw array the item has now, never that of an array that
\* was replaced.
C24_RangeOfCurrentData ==
    \A e \in Items :
        (last.op = "data_range" /\ last.item = e /\ has_master_data[e]
         /\ operations[e] = <<>>)
        => last.result = RangeOf(CurrentRaw(e))

\* the last operation loaded the raw array of e from its datastore
Loaded(e) == \E i \in DOMAIN events : events[i].type = "load" /\ events[i].item = e

\* the last operation unloaded the raw array of e and did not load it again
Unloaded(e) ==
    \E i \in DOMAIN events :
        /\ events[i].type = "unload" /\ events[i].item = e /\ events[i].dropped
        /\ \A j \in DOMAIN events :
               j > i => ~(events[j].type = "load" /\ events[j].item = e)

\* C25: an operation that unloads the raw array of an item leaves the item
\* without a memoized array, and a read of the data that follows a read which
\* ended with the unload, and so had to load the raw array again, returns an
\* array computed from the array the datastore loaded.
C25_UnloadDropsMemo ==
    \A e \in Items :
        /\ Unloaded(e) => (master_data[e] = None /\ cached_data[e] = None)
        /\ (last.op = "data" /\ last.item = e /\ last.repeated
               /\ last.prev_dropped /\ Loaded(e))
           => (last.result # None /\ last.result.raw = stored[e].raw)

\* C25 witness: the data of the storage-backed "A", which has an operation,
\* was read twice in a row; the second read loaded the raw array again,
\* returned an array, and the unload at its end left no memoized array.
C25_Witness ==
    /\ last.op = "data" /\ last.item = "A" /\ last.repeated
    /\ last.prev_dropped
    /\ Loaded("A") /\ Unloaded("A")
    /\ Len(operations["A"]) > 0
    /\ last.result # None
    /\ last.result.raw = stored["A"].raw
    /\ master_data["A"] = None /\ cached_data["A"] = None

\* C28: a read of the data of an item that has neither raw data nor a data
\* source returns None without a failed assertion, every time, and leaves
\* has_master_data, the data source and the ref-count of every item as they
\* were.
C28_EmptyItemReadsNone ==
    [][ (last'.op = "data" /\ ~has_master_data[last'.item]
           /\ data_source[last'.item] = NoItem)
        => /\ last'.result = None
           /\ ~last'.failed
           /\ has_master_data' = has_master_data
           /\ data_source' = data_source
           /\ data_ref_count' = data_ref_count ]_vars

\* the notifications of item e that the last operation delivered, in order
NotificationsOf(e) ==
    LET Mine(ev) == IsNotify(ev) /\ ev.item = e
    IN  SelectSeq(events, Mine)

\* C26: when an observer of an item records a further change on the item
\* from inside its callback, the operation completes, both notifications are
\* delivered while the change mutex is free, the first carries the kinds that
\* were being delivered and the second, later one exactly the kinds the
\* observer recorded, and nothing stays accumulated.
C26_ReentrantChangeDeliveredLater ==
    last.op = "notify_observed"
    => LET N == NotificationsOf(last.item)
       IN  /\ Len(N) = 2
           /\ N[1].changes = last.result.changes /\ ~N[1].locked
           /\ N[2].changes = last.result.further /\ ~N[2].locked
           /\ N[1].depth = 0 /\ N[2].depth = 0
           /\ data_item_changes[last.item] = {}
           /\ data_item_change_count[last.item] = 0

\* C26 witness: while DATA of "A", which "B" listens to, was delivered, the
\* observer recorded METADATA; two notifications of "A" came out.
C26_Witness ==
    /\ last.op = "notify_observed" /\ last.item = "A"
    /\ listeners["A"] = {"B"}
    /\ last.result = [changes |-> {DATA}, further |-> {METADATA}]
    /\ Len(NotificationsOf("A")) = 2
    /\ NotificationsOf("A")[2].changes = {METADATA}
    /\ NotificationsOf("B") # <<>>

\* the array a recomputation of the data of e would derive from the state as
\* it is now
Fresh(e) == DeriveData(Pack, e).v

\* C30: once no read of the data is in flight, the cache of every item is
\* marked dirty, or is empty (which makes the next read recompute), or holds
\* the array derived from the state as it is now, whatever changes completed
\* while reads were in flight.
C30_NoStalePublish ==
    (\A t \in Threads : inflight[t].pc = "idle")
    => \A e \in Items :
           \/ cached_data_dirty[e]
           \/ cached_data[e] = None
           \/ cached_data[e] = Fresh(e)

\* ======================================================================
\* Further properties of the residency tracker (SpecResidency)

\* the last operation neither loaded nor tried to unload a raw array
NoLoadOrUnload(evs) ==
    \A i \in DOMAIN evs : evs[i].type \notin {"load", "unload"}

\* C34: an acquire made while the item's ref-count is already 1 or more, and
\* a release that leaves it at 1 or more, change no other item's ref-count
\* and neither load nor unload; an acquire from 0 raises the ref-count of the
\* item's source by one and a release to 0 lowers it by one.
C34_SourceOnlyOnEdge ==
    [][ \A e \in Items :
          LET inc == last'.op = "increment_data_ref_count" /\ last'.item = e
              dec == last'.op = "decrement_data_ref_count" /\ last'.item = e
              src == data_source[e]
          IN  /\ ((inc /\ data_ref_count[e] >= 1) \/ (dec /\ data_ref_count[e] >= 2))
                 => /\ \A x \in Items \ {e} : data_ref_count'[x] = data_ref_count[x]
                    /\ NoLoadOrUnload(events')
                    /\ master_data' = master_data
              /\ (inc /\ data_ref_count[e] = 0 /\ src # NoItem /\ src # e)
                 => data_ref_count'[src] = data_ref_count[src] + 1
              /\ (dec /\ data_ref_count[e] = 1 /\ src # NoItem /\ src # e)
                 => data_ref_count'[src] = data_ref_count[src] - 1 ]_vars

\* C34 witness: the first of two references to a derived item was released;
\* its source is still held once and nothing was unloaded.
C34_Witness ==
    /\ last.op = "decrement_data_ref_count"
    /\ data_source[last.item] # NoItem
    /\ data_ref_count[last.item] = 1
    /\ data_ref_count[data_source[last.item]] = 1
    /\ NoLoadOrUnload(events)

\* ======================================================================
\* Properties of the sources of a held item (SpecSources)

\* C33: while "B", the one item that is acquired and released, has its data
\* source attached, detached, replaced or is torn down, no item's ref-count
\* is ever negative, and whenever every acquire of "B" has been released the
\* ref-count of every item is back at 0, the value it started with.
C33_CountsRestored ==
    /\ \A e \in Items : data_ref_count[e] >= 0
    /\ data_ref_count["B"] = 0 => \A e \in Items : data_ref_count[e] = 0

\* item e is as about_to_delete leaves an item
TornDown(e) ==
    /\ data_source[e] = NoItem
    /\ operations[e] = <<>>
    /\ ~has_master_data[e] /\ master_data[e] = None
    /\ \A x \in Items : e \notin listeners[x]

\* the operation just made affects item e: it notifies or fails an assertion
Reached(evs, e) ==
    \E i \in DOMAIN evs : evs[i].item = e /\ evs[i].type \in {"notify", "assert"}

C31_EachKindDeliveredOnce ==
    /\ \A t \in Threads :
          threads[t].op = "deliver"
          => /\ threads[t].span.count = 0
             /\ threads[t].span.changes = threads[t].span.due
    /\ last.op = "thread_deliver"
       => /\ last.result.count = 0
          /\ \A i \in DOMAIN events :
                (events[i].type = "notify" /\ events[i].item = last.item)
                => /\ events[i].changes = last.result.due
                   /\ events[i].recorded = last.result.due
    /\ \A e \in Items :
          /\ recorded[e] \subseteq data_item_changes[e]
          /\ recorded[e] # {} => data_item_change_count[e] > 0
    /\ last.op = "thread_end"
       => (last.result = 0 <=> data_item_change_count[last.item] = 0)

\* One thread delivers {DATA} that it took while the other thread, still
\* inside its span, has already recorded METADATA for the next notification.
C31_Witness ==
    /\ last.op = "thread_deliver"
    /\ last.result.changes = {DATA}
    /\ recorded["A"] = {METADATA}
    /\ data_item_change_count["A"] = 1
    /\ \E i \in DOMAIN events :
          events[i].type = "notify" /\ events[i].item = "A"
          /\ events[i].changes = {DATA}

\* ======================================================================
\* Properties of a chain of sources (SpecChain)

\* C35: whenever an item notifies a change set that contains DATA, its own
\* cache was marked dirty before the notification went out, and every item
\* that derives from it either notifies DATA in turn, later in the same
\* delivery and with its cache marked and left dirty, or, being inside a
\* change span of its own, holds DATA in its accumulated set for the
\* notification that the end of the span delivers; so the change reaches
\* every item down the chain.
C35_DataReachesDownstream ==
    \A i \in DOMAIN events :
        (events[i].type = "notify" /\ DATA \in events[i].changes)
        => /\ events[i].dirty
           /\ \A e \in Items \ {events[i].item} :
                data_source[e] = events[i].item
                => \/ /\ cached_data_dirty[e]
                      /\ \E j \in DOMAIN events :
                            /\ j > i
                            /\ events[j].type = "notify"
                            /\ events[j].item = e
                            /\ DATA \in events[j].changes
                            /\ events[j].dirty
                   \/ /\ data_item_change_count[e] > 0
                      /\ DATA \in data_item_changes[e]

\* New raw data of "A" went down the chain in one delivery: "A", then "C",
\* then "B" notified DATA, each with its cache already marked dirty.
C35_Witness ==
    /\ last.op = "set_master_data"
    /\ last.item = "A"
    /\ data_source["C"] = "A"
    /\ data_source["B"] = "C"
    /\ \E i, j, k \in DOMAIN events :
          /\ i < j
          /\ j < k
          /\ events[i].type = "notify" /\ events[i].item = "A"
          /\ events[j].type = "notify" /\ events[j].item = "C"
          /\ events[k].type = "notify" /\ events[k].item = "B"
          /\ \A n \in {i, j, k} : DATA \in events[n].changes /\ events[n].dirty

\* ======================================================================
\* The shape query against the data (SpecShape)

\* data.shape and data.dtype of an array: those of its root array after the
\* operations that were applied to it, in the order they were applied
RECURSIVE ArrayShapeAndDtype(_, _)
ArrayShapeAndDtype(data, n) ==
    IF data = None THEN NoShape
    ELSE IF n = 0 THEN [dims |-> data.raw, applied |-> <<>>]
    ELSE GetProcessedDataShapeAndDtype([id |-> data.applied[n]],
                                       ArrayShapeAndDtype(data, n - 1))

\* C36: the array that a read of the data of an item returns has the shape
\* and dtype that data_shape_and_dtype of the item reports: the same
\* operations, in the same order, went into both.
C36_ShapeMatchesData ==
    (last.op = "data" /\ ~last.failed)
    => ArrayShapeAndDtype(last.result, Len(last.result.applied))
       = DataShapeAndDtype(Pack, last.item)

\* ======================================================================
\* Calibrations against dimensionality (SpecCalibrations)

\* C37: when new raw data of n dimensions replaces raw data of m dimensions on
\* an item whose calibration list has the m entries, the list afterwards has
\* n entries, of which the first min(m, n) are the entries it had, in their
\* order, and the others are identity calibrations.
C37_PrefixKept ==
    [][ \A e \in Items :
          LET old == intrinsic_spatial_calibrations[e]
              new == intrinsic_spatial_calibrations'[e]
          IN  (/\ last'.op = "set_master_data"
               /\ last'.item = e
               /\ ~last'.failed
               /\ has_master_data[e]
               /\ Len(old) = master_data[e].raw)
              => /\ Len(new) = master_data'[e].raw
                 /\ \A i \in DOMAIN new :
                       new[i] = IF i <= Len(old) THEN old[i]
                                ELSE IdentityCalibration ]_vars

\* ======================================================================
\* Properties of the locks along a chain (SpecLocks)

\* thread t waits for a lock of item y that thread u holds
WaitsFor(t, u, y) ==
    /\ threads[t].op = "locks"
    /\ Head(threads[t].plan).do = "acquire"
    /\ Head(threads[t].plan).item = y
    /\ \E i \in DOMAIN threads[u].locks :
          threads[u].locks[i] = <<y, Head(threads[t].plan).lock>>

\* C32: no two threads ever wait for each other across two items, each
\* holding a lock of one item and waiting for a lock of the other.
C32_NoDeadlock ==
    \A t, u \in Threads : \A x, y \in Items :
        ~(t # u /\ x # y /\ WaitsFor(t, u, y) /\ WaitsFor(u, t, x))

\* ======================================================================
\* Properties of the GraphicSelection (SpecSelection)

\* C39: after every operation the anchor index is None exactly when nothing
\* is selected, and is otherwise one of the selected indexes.
C39_AnchorIsSelected ==
    /\ graphic_selection.anchor_index = {} <=> graphic_selection.indexes = {}
    /\ graphic_selection.anchor_index \subseteq graphic_selection.indexes

\* ======================================================================
\* Properties of the DisplayItem (SpecDisplay)

\* C40: the display item never made more decrement_data_ref_count calls than
\* increment_data_ref_count calls on a data item, and whenever its display
\* ref-count is 0 it made as many of the one as of the other on every data
\* item.
C40_CallsBalanced ==
    \A e \in Items :
        /\ display_item.decrements[e] <= display_item.increments[e]
        /\ display_item.display_ref_count = 0
           => display_item.decrements[e] = display_item.increments[e]

====
